---- MODULE Spec2Model ----
(***************************************************************************)
(* Verification model of the FormPure de-duplication core:                 *)
(*   src/core/similarity.py     text normalisation and the two metrics     *)
(*   src/core/deduplication.py  exact de-duplication, the similarity       *)
(*                              grouping loop and its hybrid scoring        *)
(*   src/core/model_inference.py  ModelService and its model wrappers      *)
(*   src/core/model_manager.py    ModelDownloader and its download threads *)
(*   src/core/batch_processing.py BatchProcessor.process_file and report   *)
(*   src/core/batch_thread.py     BatchProcessingThread.run and stop       *)
(*                                                                         *)
(* Texts are sequences of one-character strings.  Scores and thresholds    *)
(* are exact rationals <<numerator, denominator>>; for the text lengths    *)
(* and the decimal thresholds used here the exact comparison agrees with   *)
(* the comparison of the Python floats.  Record indices are 0-based        *)
(* positions as in the code; a row of the dataset carries its pandas index *)
(* label in the field idx.                                                 *)
(***************************************************************************)
EXTENDS Integers, Sequences, FiniteSets, TLC

(***************************************************************************)
(* Bounds and input domains                                                *)
(***************************************************************************)
\* largest dataset of a metric-only run
MaxRows == 3
\* largest dataset of a run with the model enabled
MaxModelRows == 3

T_ab    == <<"a", "b">>
T_a_b   == <<"a", " ", "b">>
T_abc   == <<"a", "b", "c">>
T_ac    == <<"a", "c">>
T_dot   == <<".">>
T_a_c   == <<"a", " ", "c">>

\* the cell values of the two columns of a row: <<name, address>>
RowValues ==
    { <<T_ab, T_a_b>>, <<T_a_b, T_a_b>>, <<T_abc, T_a_b>>,
      <<T_ac, T_a_b>>, <<T_ab, T_a_c>>, <<T_dot, T_a_b>> }

\* the rows of the runs with the model enabled
ModelRowValues ==
    { <<T_ab, T_a_b>>, <<T_ac, T_a_c>>, <<T_dot, T_a_b>> }

\* largest dataset of a run on the rows of GroupRowValues
MaxGroupRows == 4

\* rows of which every second one can be made similar
GroupRowValues ==
    { <<T_ab, T_a_b>>, <<T_abc, T_a_b>>, <<T_dot, T_a_b>> }

DfColumns == {"name", "address"}

(***************************************************************************)
(* Rational arithmetic on <<num, den>> with den > 0                        *)
(***************************************************************************)
Geq(x, y) == x[1] * y[2] >= y[1] * x[2]
Lt(x, y)  == x[1] * y[2] < y[1] * x[2]
Eq(x, y)  == x[1] * y[2] = y[1] * x[2]

Zero == <<0, 1>>
One  == <<1, 1>>

Max(a, b) == IF a >= b THEN a ELSE b
Min3(a, b, c) == IF a <= b /\ a <= c THEN a ELSE IF b <= c THEN b ELSE c

(***************************************************************************)
(* similarity.py: SimilarityCalculator                                     *)
(***************************************************************************)
\* \s of the regular expressions
IsSpace(c) == c = " "
\* \w of the regular expressions
IsWord(c) == c \in {"a", "b", "c", "_", "1", "5"}
NotPunct(c) == IsWord(c) \/ IsSpace(c)
NotSpace(c) == ~IsSpace(c)

RECURSIVE LStrip(_)
LStrip(s) == IF s # <<>> /\ IsSpace(Head(s)) THEN LStrip(Tail(s)) ELSE s

RECURSIVE RStrip(_)
RStrip(s) ==
    IF s # <<>> /\ IsSpace(s[Len(s)]) THEN RStrip(SubSeq(s, 1, Len(s) - 1)) ELSE s

\* str.strip()
Strip(s) == RStrip(LStrip(s))

\* re.sub(r'[^\w\s]', '', text) when remove_punctuation is set
sub_punctuation(remove_punctuation, text) ==
    IF remove_punctuation THEN SelectSeq(text, NotPunct) ELSE text

\* re.sub(r'\s+', '', text) when remove_spaces is set
sub_spaces(remove_spaces, text) ==
    IF remove_spaces THEN SelectSeq(text, NotSpace) ELSE text

\* preprocess_text on a str value: strip, then drop punctuation, then drop
\* whitespace
preprocess_text(text, remove_punctuation, remove_spaces) ==
    sub_spaces(remove_spaces, sub_punctuation(remove_punctuation, Strip(text)))

\* a value that is a str, and a value that is not, with the text str() gives
StrValue(t) == [type |-> "str", text |-> t]
OtherValue(t) == [type |-> "other", text |-> t]

\* preprocess_text on any value: a value that is not a str is returned as
\* str(value) by lines 26-27
preprocess_any(value, remove_punctuation, remove_spaces) ==
    IF value.type # "str" THEN value.text
    ELSE preprocess_text(value.text, remove_punctuation, remove_spaces)

\* jieba.cut on a text of letters and blanks: every maximal run of letters
\* is one token and every blank is a token of its own
RECURSIVE Segment(_, _)
Segment(s, cur) ==
    IF s = <<>> THEN (IF cur = <<>> THEN <<>> ELSE <<cur>>)
    ELSE IF IsSpace(Head(s))
         THEN (IF cur = <<>> THEN <<>> ELSE <<cur>>) \o << <<Head(s)>> >>
                  \o Segment(Tail(s), <<>>)
         ELSE Segment(Tail(s), Append(cur, Head(s)))

segment_chinese(text) == Segment(text, <<>>)

SeqToSet(s) == { s[k] : k \in 1..Len(s) }

\* the dynamic-programming matrix cell matrix[i, j]
RECURSIVE matrix(_, _, _, _)
matrix(str1, str2, i, j) ==
    IF i = 0 THEN j
    ELSE IF j = 0 THEN i
    ELSE IF str1[i] = str2[j] THEN matrix(str1, str2, i - 1, j - 1)
    ELSE Min3(matrix(str1, str2, i - 1, j) + 1,
              matrix(str1, str2, i, j - 1) + 1,
              matrix(str1, str2, i - 1, j - 1) + 1)

\* levenshtein_distance after its two preprocess_text calls (lines 77-105)
distance_of(s1, s2) ==
    IF Len(s1) = 0 THEN Len(s2)
    ELSE IF Len(s2) = 0 THEN Len(s1)
    ELSE matrix(s1, s2, Len(s1), Len(s2))

levenshtein_distance(str1, str2) ==
    distance_of(preprocess_text(str1, TRUE, TRUE), preprocess_text(str2, TRUE, TRUE))

\* 1.0 - (distance / max_length) as a fraction
similarity_of(distance, max_length) == <<max_length - distance, max_length>>

\* levenshtein_of dividing by the shorter length
levenshtein_of_shorter(processed_str1, processed_str2) ==
    IF Len(processed_str1) = 0 /\ Len(processed_str2) = 0 THEN One
    ELSE IF Len(processed_str1) = 0 \/ Len(processed_str2) = 0 THEN Zero
    ELSE similarity_of(levenshtein_distance(processed_str1, processed_str2),
                       IF Len(processed_str1) <= Len(processed_str2)
                       THEN Len(processed_str1) ELSE Len(processed_str2))

\* levenshtein_similarity after its two preprocess_text calls (lines 125-138)
levenshtein_of(processed_str1, processed_str2) ==
    IF Len(processed_str1) = 0 /\ Len(processed_str2) = 0 THEN One
    ELSE IF Len(processed_str1) = 0 \/ Len(processed_str2) = 0 THEN Zero
    ELSE similarity_of(levenshtein_distance(processed_str1, processed_str2),
                       Max(Len(processed_str1), Len(processed_str2)))

levenshtein_similarity(str1, str2) ==
    levenshtein_of(preprocess_text(str1, TRUE, TRUE), preprocess_text(str2, TRUE, TRUE))

\* Jaccard coefficient of two token sets (lines 173-180)
jaccard(words1, words2) ==
    IF Cardinality(words1 \cup words2) = 0 THEN Zero
    ELSE <<Cardinality(words1 \cap words2), Cardinality(words1 \cup words2)>>

\* word_based_similarity after its two preprocess_text calls (lines 159-180)
word_based_of(s1, s2) ==
    IF s1 = <<>> /\ s2 = <<>> THEN One
    ELSE IF s1 = <<>> \/ s2 = <<>> THEN Zero
    ELSE jaccard(SeqToSet(segment_chinese(s1)), SeqToSet(segment_chinese(s2)))

word_based_similarity(str1, str2) ==
    word_based_of(preprocess_text(str1, TRUE, FALSE), preprocess_text(str2, TRUE, FALSE))

\* deduplication.py: calculate_basic_similarity
calculate_basic_similarity(text1, text2, method) ==
    IF method = "levenshtein" THEN levenshtein_similarity(text1, text2)
    ELSE IF method = "word_based" THEN word_based_similarity(text1, text2)
    ELSE levenshtein_similarity(text1, text2)

(***************************************************************************)
(* State                                                                   *)
(***************************************************************************)
VARIABLES
    df,             \* the dataset passed to the call: sequence of rows
    columns,        \* similarity configuration: sequence of [col, method]
    threshold,      \* scalar threshold or per-column dict
    keep_option,    \* 'first', 'last', or anything else
    use_model,      \* the use_model argument
    settings,       \* QSettings("ExcelDeduplication", "ModelSettings")
    model_ready,    \* the requested model is downloaded and loads
    loc,            \* the locals of similarity_based_deduplication
    last_cmp,       \* per-column record of the comparison made last
    claim_log,      \* j |-> the per-column record that claimed row j
    key_columns,    \* the key columns of deduplicate_dataframe
    exact,          \* the two successive calls of deduplicate_dataframe
    pipe,           \* the stages of one call of deduplicate_with_similarity
    pure,           \* one call of a function of SimilarityCalculator
    batch,          \* BatchProcessingThread.run and its BatchProcessor
    svc,            \* the ModelService, its wrappers and its callers
    dl              \* the ModelDownloader and its download threads

vars == <<df, columns, threshold, keep_option, use_model, settings,
          model_ready, loc, last_cmp, claim_log, key_columns, exact,
          pipe, pure, batch, svc, dl>>

(***************************************************************************)
(* Datasets                                                                *)
(***************************************************************************)
MkRow(label, v) ==
    [idx |-> label, cells |-> [c \in DfColumns |-> IF c = "name" THEN v[1] ELSE v[2]]]

\* a dataset as read from a sheet: RangeIndex labels 0..n-1
Frames(values, maxRows) ==
    UNION { { [p \in 1..n |-> MkRow(p - 1, vs[p])] : vs \in [1..n -> values] }
            : n \in 0..maxRows }

\* df.iloc[p] for a 0-based position p
iloc(d, p) == d[p + 1]

\* drop that removes the row at the position the label names
drop_position(d, label) ==
    [r \in 1..(IF label + 1 \in 1..Len(d) THEN Len(d) - 1 ELSE Len(d)) |->
        IF r < label + 1 THEN d[r] ELSE d[r + 1]]

\* DataFrame.drop(label)
drop(d, label) == SelectSeq(d, LAMBDA r : r.idx # label)

RECURSIVE drop_all(_, _)
drop_all(d, labels) ==
    IF labels = <<>> THEN d ELSE drop_all(drop(d, Head(labels)), Tail(labels))

(***************************************************************************)
(* model_inference.py: ModelService.calculate_similarity                   *)
(***************************************************************************)
\* what the wrapper's encoder does on one call: a score or an exception
WrapperOutcomes ==
    { [ok |-> TRUE, score |-> <<2, 10>>],
      [ok |-> TRUE, score |-> <<9, 10>>],
      [ok |-> FALSE, score |-> Zero] }

\* TorchModelWrapper / LightModelWrapper.calculate_similarity: an exception
\* of encode_text is caught and 0.0 is returned
wrapper_calculate_similarity(wo) == IF wo.ok THEN wo.score ELSE Zero

\* ModelService.calculate_similarity: 0.0 when no wrapper can be obtained;
\* the call never raises
ms_calculate_similarity(ready, wo) ==
    IF ~ready THEN [raised |-> FALSE, value |-> Zero]
    ELSE [raised |-> FALSE, value |-> wrapper_calculate_similarity(wo)]

\* the model call of this comparison did not produce a score of the model
ModelFailed(ready, wo) == ~ready \/ ~wo.ok

(***************************************************************************)
(* deduplication.py: similarity_based_deduplication                        *)
(***************************************************************************)
\* thresholds.get(col, threshold)
ThresholdOf(thr, col) == IF thr.kind = "scalar" THEN thr.value ELSE thr.byCol[col]

\* use_model_for_current with the prefilter test > in place of >=
use_model_for_current_gt(basic, text1, text2, st) ==
    IF st.hybrid_strategy = "always_model" THEN TRUE
    ELSE IF st.hybrid_strategy = "basic_then_model"
         THEN ~Geq(st.prefilter_threshold, basic)
    ELSE IF st.hybrid_strategy = "length_based"
         THEN Len(text1) > st.min_text_length \/ Len(text2) > st.min_text_length
    ELSE FALSE

\* use_model_for_current requiring both texts to be long
use_model_for_current_both(basic, text1, text2, st) ==
    IF st.hybrid_strategy = "always_model" THEN TRUE
    ELSE IF st.hybrid_strategy = "basic_then_model"
         THEN Geq(basic, st.prefilter_threshold)
    ELSE IF st.hybrid_strategy = "length_based"
         THEN Len(text1) > st.min_text_length /\ Len(text2) > st.min_text_length
    ELSE FALSE

\* lines 113-127: whether the strategy sends this comparison to the model
use_model_for_current(basic, text1, text2, st) ==
    IF st.hybrid_strategy = "always_model" THEN TRUE
    ELSE IF st.hybrid_strategy = "basic_then_model"
         THEN Geq(basic, st.prefilter_threshold)
    ELSE IF st.hybrid_strategy = "length_based"
         THEN Len(text1) > st.min_text_length \/ Len(text2) > st.min_text_length
    ELSE FALSE

\* lines 129-139: the score, given the metric score basic, the decision and
\* the result res of the model call; the metric score replaces a raised call
column_score(basic, model_called, res, failed) ==
    IF model_called
    THEN [model_called |-> TRUE, model_failed |-> failed, model_value |-> res.value,
          similarity |-> IF res.raised THEN basic ELSE res.value]
    ELSE [model_called |-> FALSE, model_failed |-> FALSE, model_value |-> Zero,
          similarity |-> basic]

\* lines 107-139 on the metric score basic of the two texts
column_similarity_of(basic, text1, text2, um, st, ready, wo) ==
    column_score(basic, um /\ use_model_for_current(basic, text1, text2, st),
                 ms_calculate_similarity(ready, wo), ModelFailed(ready, wo))

\* lines 107-139: the score of one column of one pair
column_similarity(text1, text2, sim_method, um, st, ready, wo) ==
    column_similarity_of(calculate_basic_similarity(text1, text2, sim_method),
                         text1, text2, um, st, ready, wo)

\* the record of one compared column
ColumnEntry(c, text1, text2, r) ==
    [col |-> c.col, method |-> c.method, text1 |-> text1, text2 |-> text2,
     model_called |-> r.model_called, model_failed |-> r.model_failed,
     model_value |-> r.model_value, similarity |-> r.similarity]

\* lines 103-139 for the configured column c
compare_column(c, current_row, compare_row, um, st, ready, wo) ==
    ColumnEntry(c, current_row.cells[c.col], compare_row.cells[c.col],
                column_similarity(current_row.cells[c.col], compare_row.cells[c.col],
                                  c.method, um, st, ready, wo))

\* compare_columns in which a column the dataset lacks scores 0.0
RECURSIVE compare_columns_absent(_, _, _, _, _, _, _, _, _)
compare_columns_absent(k, cols, thr, current_row, compare_row, um, st, ready, mo) ==
    IF k > Len(cols) THEN <<>>
    ELSE IF cols[k].col \notin DfColumns
    THEN << ColumnEntry(cols[k], <<>>, <<>>,
                        column_score(Zero, FALSE, ms_calculate_similarity(ready, mo[k]),
                                     FALSE)) >>
    ELSE LET e == compare_column(cols[k], current_row, compare_row,
                                 um, st, ready, mo[k])
         IN  IF Lt(e.similarity, ThresholdOf(thr, e.col))
             THEN <<e>>
             ELSE <<e>> \o compare_columns_absent(k + 1, cols, thr, current_row,
                                                  compare_row, um, st, ready, mo)

\* lines 96-144: the columns of one pair, in configuration order, stopping
\* at the first column below its threshold; absent columns are skipped
RECURSIVE compare_columns(_, _, _, _, _, _, _, _, _)
RECURSIVE compare_after(_, _, _, _, _, _, _, _, _, _)
compare_columns(k, cols, thr, current_row, compare_row, um, st, ready, mo) ==
    IF k > Len(cols) THEN <<>>
    ELSE IF cols[k].col \notin DfColumns
    THEN compare_columns(k + 1, cols, thr, current_row, compare_row, um, st, ready, mo)
    ELSE compare_after(compare_column(cols[k], current_row, compare_row,
                                      um, st, ready, mo[k]),
                       k, cols, thr, current_row, compare_row, um, st, ready, mo)

\* lines 141-144: the break at a column below its threshold
compare_after(e, k, cols, thr, current_row, compare_row, um, st, ready, mo) ==
    IF Lt(e.similarity, ThresholdOf(thr, e.col))
    THEN <<e>>
    ELSE <<e>> \o compare_columns(k + 1, cols, thr, current_row, compare_row,
                                  um, st, ready, mo)

\* is_similar decided by the first compared column alone
is_similar_first(thr, trace) ==
    trace = <<>> \/ ~Lt(trace[1].similarity, ThresholdOf(thr, trace[1].col))

\* is_similar requiring every score to exceed its threshold
is_similar_strict(thr, trace) ==
    \A k \in 1..Len(trace) : ~Geq(ThresholdOf(thr, trace[k].col), trace[k].similarity)

\* is_similar after the column loop
is_similar(thr, trace) ==
    \A k \in 1..Len(trace) : ~Lt(trace[k].similarity, ThresholdOf(thr, trace[k].col))

\* the arguments and the environment of one call
Args ==
    [df |-> df, columns |-> columns, threshold |-> threshold,
     keep_option |-> keep_option, use_model |-> use_model,
     settings |-> settings, model_ready |-> model_ready]

\* the locals before the call
NotStarted ==
    [pc |-> "start", i |-> 0, j |-> 0, is_duplicate |-> <<>>,
     similar_indices |-> <<>>, group_info |-> <<>>, group_id |-> 0,
     result_df |-> <<>>]

\* lines 46-77: the empty dataset returns at once; otherwise the result
\* copy, the claim markers and the group map are created
sbd_enter(l, a) ==
    IF a.df = <<>>
    THEN [l EXCEPT !.pc = "done", !.result_df = a.df]
    ELSE [l EXCEPT !.pc = "outer",
                   !.result_df = a.df,
                   !.is_duplicate = [p \in 0..(Len(a.df) - 1) |-> FALSE],
                   !.group_info = <<>>,
                   !.group_id = 0,
                   !.i = 0]

\* sbd_outer without the test of the claim marker of row i
sbd_outer_noskip(l, a) ==
    IF l.i >= Len(a.df) THEN [l EXCEPT !.pc = "done"]
    ELSE [l EXCEPT !.similar_indices = <<l.i>>, !.j = l.i + 1, !.pc = "inner"]

\* lines 80-87 and 169: head of the loop over i
sbd_outer(l, a) ==
    IF l.i >= Len(a.df) THEN [l EXCEPT !.pc = "done"]
    ELSE IF l.is_duplicate[l.i] THEN [l EXCEPT !.i = l.i + 1]
    ELSE [l EXCEPT !.similar_indices = <<l.i>>, !.j = l.i + 1, !.pc = "inner"]

\* the per-column record of comparing row i with row j
sbd_trace(l, a, mo) ==
    compare_columns(1, a.columns, a.threshold, iloc(a.df, l.i), iloc(a.df, l.j),
                    a.use_model, a.settings, a.model_ready, mo)

\* sbd_inner that ends the scan behind the anchor at the first match
sbd_inner_stop(l, a, mo) ==
    IF l.j >= Len(a.df) THEN [l EXCEPT !.pc = "close"]
    ELSE IF l.is_duplicate[l.j] THEN [l EXCEPT !.j = l.j + 1]
    ELSE IF is_similar(a.threshold, sbd_trace(l, a, mo))
         THEN [l EXCEPT !.similar_indices = Append(l.similar_indices, l.j),
                        !.is_duplicate = [l.is_duplicate EXCEPT ![l.j] = TRUE],
                        !.j = l.j + 1,
                        !.pc = "close"]
         ELSE [l EXCEPT !.j = l.j + 1]

\* lines 90-149: one iteration of the loop over j
sbd_inner(l, a, mo) ==
    IF l.j >= Len(a.df) THEN [l EXCEPT !.pc = "close"]
    ELSE IF l.is_duplicate[l.j] THEN [l EXCEPT !.j = l.j + 1]
    ELSE IF is_similar(a.threshold, sbd_trace(l, a, mo))
         THEN [l EXCEPT !.similar_indices = Append(l.similar_indices, l.j),
                        !.is_duplicate = [l.is_duplicate EXCEPT ![l.j] = TRUE],
                        !.j = l.j + 1]
         ELSE [l EXCEPT !.j = l.j + 1]

\* df.index[idx] for every idx of a list of positions
LabelsOf(d, idxs) == [k \in 1..Len(idxs) |-> iloc(d, idxs[k]).idx]

\* apply_keep with 'last' removing the rows 'first' removes
apply_keep_lastasfirst(result, d, similar, keep) ==
    IF keep = "first" \/ keep = "last"
    THEN drop_all(result, LabelsOf(d, Tail(similar)))
    ELSE result

\* lines 156-167: the rows the keep policy removes from result_df
apply_keep(result, d, similar, keep) ==
    IF keep = "first" THEN drop_all(result, LabelsOf(d, Tail(similar)))
    ELSE IF keep = "last"
         THEN drop_all(result, LabelsOf(d, SubSeq(similar, 1, Len(similar) - 1)))
    ELSE result

\* sbd_close that records the group of an anchor nothing joined, too
sbd_close_single(l, a) ==
    [l EXCEPT !.group_info = l.group_info @@ (l.group_id :> l.similar_indices),
              !.group_id = l.group_id + 1,
              !.result_df = apply_keep(l.result_df, a.df, l.similar_indices,
                                       a.keep_option),
              !.i = l.i + 1,
              !.pc = "outer"]

\* lines 151-167: after the scan of the rows behind anchor i
sbd_close(l, a) ==
    IF Len(l.similar_indices) > 1
    THEN [l EXCEPT !.group_info = l.group_info @@ (l.group_id :> l.similar_indices),
                   !.group_id = l.group_id + 1,
                   !.result_df = apply_keep(l.result_df, a.df, l.similar_indices,
                                            a.keep_option),
                   !.i = l.i + 1,
                   !.pc = "outer"]
    ELSE [l EXCEPT !.i = l.i + 1, !.pc = "outer"]

\* one step of similarity_based_deduplication from the locals l
sbd_step(l, a, mo) ==
    IF l.pc = "start" THEN sbd_enter(l, a)
    ELSE IF l.pc = "outer" THEN sbd_outer(l, a)
    ELSE IF l.pc = "inner" THEN sbd_inner(l, a, mo)
    ELSE IF l.pc = "close" THEN sbd_close(l, a)
    ELSE l

\* the call run to its return statement, every wrapper call answering wo
RECURSIVE sbd_run(_, _, _)
sbd_run(l, a, wo) ==
    IF l.pc = "done" THEN l
    ELSE sbd_run(sbd_step(l, a, [k \in 1..Len(a.columns) |-> wo]), a, wo)

\* lines 129-133 over the whole call: whether some comparison reached the
\* call of model_service.calculate_similarity
RECURSIVE sbd_model_called(_, _, _)
sbd_model_called(l, a, wo) ==
    IF l.pc = "done" THEN FALSE
    ELSE \/ /\ l.pc = "inner"
            /\ l.j < Len(a.df)
            /\ ~l.is_duplicate[l.j]
            /\ \E k \in 1..Len(sbd_trace(l, a, [c \in 1..Len(a.columns) |-> wo])) :
                  sbd_trace(l, a, [c \in 1..Len(a.columns) |-> wo])[k].model_called
         \/ sbd_model_called(sbd_step(l, a, [c \in 1..Len(a.columns) |-> wo]), a, wo)

(***************************************************************************)
(* deduplication.py: deduplicate_dataframe (DataFrame.drop_duplicates)     *)
(***************************************************************************)
\* KeyOf on the first subset column alone
KeyOf_first(d, p, keys) == <<d[p].cells[keys[1]]>>

\* the values of the subset columns of the row at 1-based position p
KeyOf(d, p, keys) == [k \in 1..Len(keys) |-> d[p].cells[keys[k]]]

\* DataFrame.duplicated(subset, keep) at position p
duplicated(d, p, keys, keep) ==
    IF keep = "first"
    THEN \E q \in 1..(p - 1) : KeyOf(d, q, keys) = KeyOf(d, p, keys)
    ELSE IF keep = "last"
    THEN \E q \in (p + 1)..Len(d) : KeyOf(d, q, keys) = KeyOf(d, p, keys)
    ELSE \E q \in 1..Len(d) : q # p /\ KeyOf(d, q, keys) = KeyOf(d, p, keys)

\* keep_rows that stops filtering after the first row it removes
RECURSIVE keep_rows_once(_, _, _, _)
keep_rows_once(d, p, keys, keep) ==
    IF p > Len(d) THEN <<>>
    ELSE IF duplicated(d, p, keys, keep) THEN SubSeq(d, p + 1, Len(d))
    ELSE <<d[p]>> \o keep_rows_once(d, p + 1, keys, keep)

RECURSIVE keep_rows(_, _, _, _)
keep_rows(d, p, keys, keep) ==
    IF p > Len(d) THEN <<>>
    ELSE (IF duplicated(d, p, keys, keep) THEN <<>> ELSE <<d[p]>>)
             \o keep_rows(d, p + 1, keys, keep)

\* deduplicate_dataframe whose drop_duplicates validates keep on an empty
\* frame too
deduplicate_dataframe_noempty(d, keys, keep) ==
    IF keep \notin {"first", "last", "False"}
    THEN [raised |-> TRUE, rows |-> <<>>]
    ELSE [raised |-> FALSE, rows |-> keep_rows(d, 1, keys, keep)]

\* deduplicate_dataframe: 'False' stands for keep=False; drop_duplicates
\* returns an empty frame as it is and rejects any other keep value
deduplicate_dataframe(d, keys, keep) ==
    IF d = <<>> THEN [raised |-> FALSE, rows |-> d]
    ELSE IF keep \notin {"first", "last", "False"}
    THEN [raised |-> TRUE, rows |-> <<>>]
    ELSE [raised |-> FALSE, rows |-> keep_rows(d, 1, keys, keep)]

(***************************************************************************)
(* deduplication.py: deduplicate_with_similarity                           *)
(***************************************************************************)
\* the arguments of the call of the grouping stage (lines 214-222)
SimilarArgs(d, cols, thr, keep, um, st, ready) ==
    [df |-> d, columns |-> cols, threshold |-> thr, keep_option |-> keep,
     use_model |-> um, settings |-> st, model_ready |-> ready]

\* use_model_actual that leaves the configured flag unread
use_model_actual_caller(um, st) == um

\* lines 208-213: the model flag handed to the grouping stage
use_model_actual(um, st) == um /\ st.enable_model

\* step 1 that leaves the dataset as it is
dws_exact_copy(d, exact_key_columns, keep) == [raised |-> FALSE, rows |-> d]

\* lines 202-205, step 1: exact de-duplication when key columns are given
dws_exact(d, exact_key_columns, keep) ==
    IF exact_key_columns # <<>>
    THEN deduplicate_dataframe(d, exact_key_columns, keep)
    ELSE [raised |-> FALSE, rows |-> d]

\* what step 2 returns from the locals of a finished grouping call
dws_return(l) == [rows |-> l.result_df, group_info |-> l.group_info]

\* lines 208-227, step 2: the grouping on df_exact when similarity columns
\* are given
dws_similar(df_exact, cols, thr, keep, um, st, ready, wo) ==
    IF cols # <<>>
    THEN dws_return(sbd_run(NotStarted,
                            SimilarArgs(df_exact, cols, thr, keep,
                                        use_model_actual(um, st), st, ready),
                            wo))
    ELSE [rows |-> df_exact, group_info |-> <<>>]

\* lines 208-224: whether the grouping stage reached a call of the model
dws_model_called(df_exact, cols, thr, keep, um, st, ready, wo) ==
    /\ cols # <<>>
    /\ sbd_model_called(NotStarted,
                        SimilarArgs(df_exact, cols, thr, keep,
                                    use_model_actual(um, st), st, ready),
                        wo)

\* the locals of the pipeline after step 1 with the outcome e
dws_after(e, cols, thr, keep, um, st, ready, wo) ==
    IF e.raised THEN [raised |-> TRUE, rows |-> <<>>, group_info |-> <<>>]
    ELSE [raised |-> FALSE,
          rows |-> dws_similar(e.rows, cols, thr, keep, um, st, ready, wo).rows,
          group_info |->
              dws_similar(e.rows, cols, thr, keep, um, st, ready, wo).group_info]

\* the whole call
deduplicate_with_similarity(d, exact_key_columns, cols, thr, keep, um, st, ready, wo) ==
    dws_after(dws_exact(d, exact_key_columns, keep), cols, thr, keep, um, st, ready, wo)

(***************************************************************************)
(* Inputs                                                                  *)
(***************************************************************************)
Col(c, m) == [col |-> c, method |-> m]

\* threshold given as one number
Scalar(v) == [kind |-> "scalar", value |-> v, byCol |-> [c \in DfColumns |-> v]]

\* threshold given per column
Dict(n, a) ==
    [kind |-> "dict", value |-> Zero,
     byCol |-> [c \in DfColumns |-> IF c = "name" THEN n ELSE a]]

\* column configurations and thresholds of the metric-only runs; "phone" is
\* a configured column the dataset does not have
MetricConfigs ==
    { [columns |-> <<Col("name", "levenshtein")>>, threshold |-> Scalar(<<0, 10>>)],
      [columns |-> <<Col("name", "levenshtein")>>, threshold |-> Scalar(<<6, 10>>)],
      [columns |-> <<Col("name", "levenshtein")>>, threshold |-> Scalar(<<10, 10>>)],
      [columns |-> <<Col("name", "levenshtein"), Col("address", "word_based")>>,
       threshold |-> Dict(<<5, 10>>, <<6, 10>>)],
      [columns |-> <<Col("phone", "levenshtein"), Col("name", "levenshtein")>>,
       threshold |-> Scalar(<<6, 10>>)],
      [columns |-> <<Col("phone", "levenshtein")>>, threshold |-> Scalar(<<6, 10>>)] }

\* column configurations and thresholds of the runs with the model enabled
ModelConfigs ==
    { [columns |-> <<Col("name", "levenshtein")>>, threshold |-> Scalar(<<6, 10>>)],
      [columns |-> <<Col("name", "levenshtein"), Col("address", "word_based")>>,
       threshold |-> Dict(<<5, 10>>, <<6, 10>>)] }

KeepOptions == {"first", "last", "none"}

\* the values read when nothing was saved (lines 75-77 and 210)
DefaultSettings ==
    [hybrid_strategy |-> "always_model", prefilter_threshold |-> <<5, 10>>,
     min_text_length |-> 50, enable_model |-> FALSE]

\* saved settings: the four strategies of the settings dialog
HybridSettings ==
    { DefaultSettings,
      [hybrid_strategy |-> "basic_then_model", prefilter_threshold |-> <<5, 10>>,
       min_text_length |-> 50, enable_model |-> TRUE],
      [hybrid_strategy |-> "basic_then_model", prefilter_threshold |-> <<7, 10>>,
       min_text_length |-> 50, enable_model |-> TRUE],
      [hybrid_strategy |-> "length_based", prefilter_threshold |-> <<5, 10>>,
       min_text_length |-> 1, enable_model |-> TRUE],
      [hybrid_strategy |-> "length_based", prefilter_threshold |-> <<5, 10>>,
       min_text_length |-> 50, enable_model |-> TRUE],
      [hybrid_strategy |-> "adaptive", prefilter_threshold |-> <<5, 10>>,
       min_text_length |-> 50, enable_model |-> TRUE] }

NoComparison == [made |-> FALSE, i |-> 0, j |-> 0, trace |-> <<>>]

ExactIdle ==
    [pc |-> "idle", out1 |-> [raised |-> FALSE, rows |-> <<>>],
     out2 |-> [raised |-> FALSE, rows |-> <<>>]]

\* no call of deduplicate_with_similarity
PipeIdle ==
    [pc |-> "idle", df_exact |-> <<>>, df_similar |-> <<>>, group_info |-> <<>>,
     wo |-> [ok |-> FALSE, score |-> Zero], model_called |-> FALSE]

\* no call of a function of SimilarityCalculator
PureIdle == [pc |-> "idle"]

\* no batch
BatchIdle == [pc |-> "idle"]

\* the models the manager knows, in the order of models_info, and an id it
\* does not know
KnownModels == <<"bert", "light-m">>
ModelIds == {"bert", "light-m", "ghost"}

\* the argument model_id = None of calculate_similarity
NoModel == "None"

\* no wrapper: the value None
NoWrapper == 0

\* a caller that is in no call of the service
CallerIdle ==
    [pc |-> "idle", op |-> "none", model_id |-> NoModel, wrapper |-> NoWrapper,
     pending |-> <<>>, before |-> <<>>,
     result |-> [kind |-> "none", raised |-> FALSE, value |-> Zero]]

\* no ModelService in use
ServiceIdle ==
    [threads |-> {}, downloaded |-> {}, wrappers |-> <<>>, active_models |-> <<>>,
     callers |-> <<CallerIdle, CallerIdle>>,
     last |-> [m \in {"bert", "light-m"} |-> "none"], calls |-> 0]

\* no ModelDownloader in use
DownloaderIdle ==
    [on |-> FALSE, active_downloads |-> <<>>, threads |-> <<>>, is_downloaded |-> {},
     marked_by |-> {}, cancelled |-> {}, complete |-> <<>>]

(***************************************************************************)
(* The grouping run: similarity_based_deduplication                        *)
(***************************************************************************)
InitMetric ==
    /\ df \in Frames(RowValues, MaxRows)
    /\ \E c \in MetricConfigs : columns = c.columns /\ threshold = c.threshold
    /\ use_model = FALSE
    /\ settings = DefaultSettings
    /\ model_ready = FALSE

InitHybrid ==
    /\ df \in Frames(ModelRowValues, MaxModelRows)
    /\ \E c \in ModelConfigs : columns = c.columns /\ threshold = c.threshold
    /\ use_model = TRUE
    /\ settings \in HybridSettings
    /\ model_ready \in BOOLEAN

\* datasets large enough for two groups, grouped on one column
InitGroups ==
    /\ df \in Frames(GroupRowValues, MaxGroupRows)
    /\ columns = <<Col("name", "levenshtein")>>
    /\ threshold = Scalar(<<6, 10>>)
    /\ use_model = FALSE
    /\ settings = DefaultSettings
    /\ model_ready = FALSE

Init ==
    /\ InitMetric \/ InitHybrid \/ InitGroups
    /\ keep_option \in KeepOptions
    /\ loc = NotStarted
    /\ last_cmp = NoComparison
    /\ claim_log = <<>>
    /\ key_columns = <<>>
    /\ exact = ExactIdle
    /\ pipe = PipeIdle
    /\ pure = PureIdle
    /\ batch = BatchIdle
    /\ svc = ServiceIdle
    /\ dl = DownloaderIdle

inputs == <<df, columns, threshold, keep_option, use_model, settings, model_ready>>

\* the state of the calls a specification does not make
others == <<pipe, pure, batch, svc, dl>>

\* entry of the call
Enter ==
    /\ loc.pc = "start"
    /\ loc' = sbd_enter(loc, Args)
    /\ UNCHANGED <<inputs, last_cmp, claim_log, key_columns, exact, others>>

\* head of the loop over the anchor index i
Anchor ==
    /\ loc.pc = "outer"
    /\ loc' = sbd_outer(loc, Args)
    /\ UNCHANGED <<inputs, last_cmp, claim_log, key_columns, exact, others>>

\* the wrapper outcomes of the model calls of one comparison
Outcomes ==
    IF use_model THEN [1..Len(columns) -> WrapperOutcomes]
    ELSE {[k \in 1..Len(columns) |-> [ok |-> FALSE, score |-> Zero]]}

\* what is recorded of an iteration that compared row i with row j
Observe(compared, trace) ==
    /\ last_cmp' = IF compared
                   THEN [made |-> TRUE, i |-> loc.i, j |-> loc.j, trace |-> trace]
                   ELSE last_cmp
    /\ claim_log' = IF compared /\ is_similar(threshold, trace)
                    THEN claim_log @@ (loc.j :> trace)
                    ELSE claim_log

\* one iteration of the loop over the candidate index j
Scan ==
    /\ loc.pc = "inner"
    /\ \E mo \in Outcomes :
          /\ loc' = sbd_inner(loc, Args, mo)
          /\ Observe(loc.j < Len(df) /\ ~loc.is_duplicate[loc.j],
                     sbd_trace(loc, Args, mo))
    /\ UNCHANGED <<inputs, key_columns, exact, others>>

\* end of the scan behind one anchor: record the group, apply the keep policy
Close ==
    /\ loc.pc = "close"
    /\ loc' = sbd_close(loc, Args)
    /\ UNCHANGED <<inputs, last_cmp, claim_log, key_columns, exact, others>>

Next == Enter \/ Anchor \/ Scan \/ Close

Spec == Init /\ [][Next]_vars

(***************************************************************************)
(* deduplicate_dataframe applied to a dataset and then to its own output   *)
(***************************************************************************)
KeyColumnLists == { <<"name">>, <<"address">>, <<"name", "address">> }

ExactKeepOptions == {"first", "last", "False", "none"}

InitExact ==
    /\ df \in Frames(RowValues, MaxRows)
    /\ key_columns \in KeyColumnLists
    /\ keep_option \in ExactKeepOptions
    /\ exact = [ExactIdle EXCEPT !.pc = "start"]
    /\ columns = <<>>
    /\ threshold = Scalar(<<7, 10>>)
    /\ use_model = FALSE
    /\ settings = DefaultSettings
    /\ model_ready = FALSE
    /\ loc = NotStarted
    /\ last_cmp = NoComparison
    /\ claim_log = <<>>
    /\ pipe = PipeIdle
    /\ pure = PureIdle
    /\ batch = BatchIdle
    /\ svc = ServiceIdle
    /\ dl = DownloaderIdle

\* the first call
ExactOnce ==
    /\ exact.pc = "start"
    /\ LET out == deduplicate_dataframe(df, key_columns, keep_option)
       IN  exact' = [exact EXCEPT !.out1 = out,
                                  !.pc = IF out.raised THEN "raised" ELSE "once"]
    /\ UNCHANGED <<inputs, loc, last_cmp, claim_log, key_columns, others>>

\* the second call, on the output of the first
ExactTwice ==
    /\ exact.pc = "once"
    /\ LET out == deduplicate_dataframe(exact.out1.rows, key_columns, keep_option)
       IN  exact' = [exact EXCEPT !.out2 = out,
                                  !.pc = IF out.raised THEN "raised" ELSE "twice"]
    /\ UNCHANGED <<inputs, loc, last_cmp, claim_log, key_columns, others>>

NextExact == ExactOnce \/ ExactTwice

SpecExact == InitExact /\ [][NextExact]_vars

(***************************************************************************)
(* The pipeline: deduplicate_with_similarity                               *)
(***************************************************************************)
\* largest dataset passed to the pipeline
MaxPipeRows == 3

PipeRowValues ==
    { <<T_ab, T_a_b>>, <<T_abc, T_a_b>>, <<T_ab, T_a_c>>, <<T_ac, T_a_c>> }

\* exact_key_columns: none, one column, both columns
PipeKeyLists == { <<>>, <<"address">>, <<"name", "address">> }

\* similarity_columns and similarity_threshold: none with the default
\* threshold, one column, two columns with a threshold each
PipeConfigs ==
    { [columns |-> <<>>, threshold |-> Scalar(<<7, 10>>)],
      [columns |-> <<Col("name", "levenshtein")>>, threshold |-> Scalar(<<6, 10>>)],
      [columns |-> <<Col("name", "levenshtein"), Col("address", "word_based")>>,
       threshold |-> Dict(<<6, 10>>, <<2, 10>>)] }

\* use_model, the saved enable_model and whether the model loads
PipeModelOptions ==
    { [use_model |-> FALSE, enable_model |-> FALSE, ready |-> FALSE],
      [use_model |-> TRUE, enable_model |-> FALSE, ready |-> TRUE],
      [use_model |-> TRUE, enable_model |-> TRUE, ready |-> TRUE],
      [use_model |-> TRUE, enable_model |-> TRUE, ready |-> FALSE],
      [use_model |-> FALSE, enable_model |-> TRUE, ready |-> TRUE] }

InitPipe ==
    /\ df \in Frames(PipeRowValues, MaxPipeRows)
    /\ key_columns \in PipeKeyLists
    /\ \E c \in PipeConfigs : columns = c.columns /\ threshold = c.threshold
    /\ keep_option \in ExactKeepOptions
    /\ \E o \in PipeModelOptions :
          /\ use_model = o.use_model
          /\ settings = [DefaultSettings EXCEPT !.enable_model = o.enable_model]
          /\ model_ready = o.ready
    /\ pipe = [PipeIdle EXCEPT !.pc = "start"]
    /\ loc = NotStarted
    /\ last_cmp = NoComparison
    /\ claim_log = <<>>
    /\ exact = ExactIdle
    /\ pure = PureIdle
    /\ batch = BatchIdle
    /\ svc = ServiceIdle
    /\ dl = DownloaderIdle

\* step 1; a ValueError of drop_duplicates leaves the pipeline
PipeExact ==
    /\ pipe.pc = "start"
    /\ LET out == dws_exact(df, key_columns, keep_option)
       IN  pipe' = [pipe EXCEPT !.df_exact = out.rows,
                                !.pc = IF out.raised THEN "raised" ELSE "exact"]
    /\ UNCHANGED <<inputs, loc, last_cmp, claim_log, key_columns, exact, pure, batch, svc, dl>>

\* the outcome the encoder would give in the calls of the grouping stage
PipeOutcomes ==
    IF columns # <<>> /\ use_model
    THEN WrapperOutcomes
    ELSE {[ok |-> FALSE, score |-> Zero]}

\* step 2 and the return
PipeSimilar ==
    /\ pipe.pc = "exact"
    /\ \E wo \in PipeOutcomes :
          LET out == dws_similar(pipe.df_exact, columns, threshold, keep_option,
                                 use_model, settings, model_ready, wo)
          IN  pipe' = [pipe EXCEPT !.df_similar = out.rows,
                                   !.group_info = out.group_info,
                                   !.wo = wo,
                                   !.model_called =
                                       dws_model_called(pipe.df_exact, columns, threshold,
                                                        keep_option, use_model, settings,
                                                        model_ready, wo),
                                   !.pc = "done"]
    /\ UNCHANGED <<inputs, loc, last_cmp, claim_log, key_columns, exact, pure, batch, svc, dl>>

NextPipe == PipeExact \/ PipeSimilar

SpecPipe == InitPipe /\ [][NextPipe]_vars

(***************************************************************************)
(* Calls of the functions of SimilarityCalculator                          *)
(***************************************************************************)
\* longest text passed to a function
MaxTextLen == 3

\* two letters, the blank and a punctuation mark
Alphabet == {"a", "b", " ", "."}

Texts(n) == UNION { [1..k -> Alphabet] : k \in 0..n }

\* the texts, and the float 1.5 whose str() is '1.5'
PureValues ==
    { StrValue(t) : t \in Texts(MaxTextLen) } \cup { OtherValue(<<"1", ".", "5">>) }

InitPure ==
    /\ \E a \in PureValues, t \in Texts(MaxTextLen) :
          pure = [pc |-> "input", a |-> a, b |-> StrValue(t),
                  remove_punctuation |-> TRUE, remove_spaces |-> TRUE, out |-> <<>>]
    /\ df = <<>>
    /\ columns = <<>>
    /\ threshold = Scalar(<<7, 10>>)
    /\ keep_option = "first"
    /\ use_model = FALSE
    /\ settings = DefaultSettings
    /\ model_ready = FALSE
    /\ loc = NotStarted
    /\ last_cmp = NoComparison
    /\ claim_log = <<>>
    /\ key_columns = <<>>
    /\ exact = ExactIdle
    /\ pipe = PipeIdle
    /\ batch = BatchIdle
    /\ svc = ServiceIdle
    /\ dl = DownloaderIdle

\* preprocess_text(a, remove_punctuation, remove_spaces)
PreprocessCall ==
    /\ pure.pc = "input"
    /\ \E rp, rs \in BOOLEAN :
          pure' = [pure EXCEPT !.pc = "preprocess_text",
                               !.remove_punctuation = rp,
                               !.remove_spaces = rs,
                               !.out = preprocess_any(pure.a, rp, rs)]
    /\ UNCHANGED <<inputs, loc, last_cmp, claim_log, key_columns, exact, pipe, batch, svc, dl>>

\* levenshtein_similarity(a, b) on two str, as the callers pass them
LevenshteinCall ==
    /\ pure.pc = "input"
    /\ pure.a.type = "str"
    /\ pure' = [pure EXCEPT !.pc = "levenshtein_similarity",
                            !.out = levenshtein_similarity(pure.a.text, pure.b.text)]
    /\ UNCHANGED <<inputs, loc, last_cmp, claim_log, key_columns, exact, pipe, batch, svc, dl>>

\* word_based_similarity(a, b) on two str, as the callers pass them
WordBasedCall ==
    /\ pure.pc = "input"
    /\ pure.a.type = "str"
    /\ pure' = [pure EXCEPT !.pc = "word_based_similarity",
                            !.out = word_based_similarity(pure.a.text, pure.b.text)]
    /\ UNCHANGED <<inputs, loc, last_cmp, claim_log, key_columns, exact, pipe, batch, svc, dl>>

NextPure == PreprocessCall \/ LevenshteinCall \/ WordBasedCall

SpecPure == InitPure /\ [][NextPure]_vars

(***************************************************************************)
(* batch_processing.py: BatchProcessor.process_file                        *)
(***************************************************************************)
\* lines 77-83: a key column whose name holds one of the keywords ('name',
\* 'addr', ...) is a text column; both columns of the datasets are
is_text_column(col) == col \in {"name", "address"}

NotTextColumn(col) == ~is_text_column(col)

\* lines 75-96: {col: 'word_based'} for the text columns among the keys
similarity_columns_of(keys) ==
    [k \in 1..Len(SelectSeq(keys, is_text_column)) |->
        [col |-> SelectSeq(keys, is_text_column)[k], method |-> "word_based"]]

\* the outcome of one worksheet
SheetFailed(msg) == [kind |-> "failed", error |-> msg, deduplicated |-> <<>>]
SheetSkipped == [kind |-> "skipped", error |-> "", deduplicated |-> <<>>]
SheetDone(rows) == [kind |-> "done", error |-> "", deduplicated |-> rows]

\* lines 98-113: what the call of the engine leaves of a worksheet
sheet_outcome(out) ==
    IF out.raised THEN SheetFailed("keep must be either first, last or False")
    ELSE SheetDone(out.rows)

\* lines 60-113 for one worksheet: the sheet is skipped without key
\* columns; read_excel may raise; on a sheet without rows the text ratio of
\* lines 85-88 divides by len(sample) = 0; then one of the two engines runs
process_sheet(sheet, st, ready, wo) ==
    IF sheet.key_columns = <<>> THEN SheetSkipped
    ELSE IF ~sheet.readable THEN SheetFailed("worksheet not found")
    ELSE IF sheet.rows = <<>> THEN SheetFailed("division by zero")
    ELSE IF similarity_columns_of(sheet.key_columns) # <<>> /\ sheet.use_model
    THEN sheet_outcome(deduplicate_with_similarity(
                        sheet.rows, SelectSeq(sheet.key_columns, NotTextColumn),
                        similarity_columns_of(sheet.key_columns), Scalar(<<7, 10>>),
                        sheet.keep_option, sheet.use_model, st, ready, wo))
    ELSE sheet_outcome(deduplicate_dataframe(sheet.rows, sheet.key_columns,
                                           sheet.keep_option))

\* lines 116-131: the statistics of a worksheet and the entry stored for it
sheet_stats_kept(sheet, r) ==
    [total_rows |-> Len(sheet.rows),
     remaining_rows |-> Len(r.deduplicated),
     duplicates_removed |-> Len(r.deduplicated)]

sheet_stats(sheet, r) ==
    [total_rows |-> Len(sheet.rows),
     remaining_rows |-> Len(r.deduplicated),
     duplicates_removed |-> Len(sheet.rows) - Len(r.deduplicated)]

sheet_entry(sheet, r) ==
    [original |-> sheet.rows, deduplicated |-> r.deduplicated,
     stats |-> sheet_stats(sheet, r)]

\* lines 54-57: the locals before the loop over the worksheets
NoSheets ==
    [sheets_results |-> <<>>, total_rows |-> 0, total_remaining |-> 0,
     total_removed |-> 0]

\* lines 134-144: the entry of a workbook whose worksheets all went through
file_success(acc) ==
    [sheets |-> acc.sheets_results,
     stats |-> [total_rows |-> acc.total_rows,
                remaining_rows |-> acc.total_remaining,
                duplicates_removed |-> acc.total_removed,
                success |-> TRUE, error |-> ""]]

\* lines 148-158: the entry of a workbook one of whose worksheets raised
file_failure(msg) ==
    [sheets |-> <<>>,
     stats |-> [total_rows |-> 0, remaining_rows |-> 0, duplicates_removed |-> 0,
                success |-> FALSE, error |-> msg]]

\* lines 59-160: the loop over the worksheets from the k-th on, inside the
\* try block that spans the whole workbook
RECURSIVE process_sheets(_, _, _, _, _, _)
RECURSIVE after_sheet(_, _, _, _, _, _, _)
process_sheets(sheets, k, acc, st, ready, wo) ==
    IF k > Len(sheets) THEN file_success(acc)
    ELSE after_sheet(process_sheet(sheets[k], st, ready, wo),
                     sheets, k, acc, st, ready, wo)

after_sheet(r, sheets, k, acc, st, ready, wo) ==
    IF r.kind = "skipped" THEN process_sheets(sheets, k + 1, acc, st, ready, wo)
    ELSE IF r.kind = "failed" THEN file_failure(r.error)
    ELSE process_sheets(
             sheets, k + 1,
             [sheets_results |-> acc.sheets_results @@ (k :> sheet_entry(sheets[k], r)),
              total_rows |-> acc.total_rows + Len(sheets[k].rows),
              total_remaining |-> acc.total_remaining + Len(r.deduplicated),
              total_removed |-> acc.total_removed
                                   + (Len(sheets[k].rows) - Len(r.deduplicated))],
             st, ready, wo)

\* process_file: the entry stored in self.results[file_path]
process_file(sheets, st, ready, wo) ==
    process_sheets(sheets, 1, NoSheets, st, ready, wo)

\* generate_report, lines 215-232: the counts over self.results
RECURSIVE report_sum(_, _, _)
report_sum(results, files, field) ==
    IF files = {} THEN 0
    ELSE LET f == CHOOSE x \in files : TRUE
         IN  (IF results[f].stats.success THEN results[f].stats[field] ELSE 0)
                + report_sum(results, files \ {f}, field)

generate_report(b) ==
    [total_files |-> b.total_files,
     processed_files |-> b.processed_files,
     success_count |->
         Cardinality({ f \in DOMAIN b.results : b.results[f].stats.success }),
     error_count |->
         Cardinality({ f \in DOMAIN b.results : ~b.results[f].stats.success }),
     total_rows_processed |-> report_sum(b.results, DOMAIN b.results, "total_rows"),
     total_duplicates_removed |->
         report_sum(b.results, DOMAIN b.results, "duplicates_removed")]

(***************************************************************************)
(* batch_thread.py: BatchProcessingThread.run                              *)
(***************************************************************************)
\* largest number of workbooks of a batch
MaxFiles == 2

\* a dataset with RangeIndex labels from the cell values of its rows
MkFrame(vs) == [p \in 1..Len(vs) |-> MkRow(p - 1, vs[p])]

\* a worksheet and its entry of dedup_config
Sheet(readable, vs, keys, keep, um) ==
    [readable |-> readable, rows |-> MkFrame(vs), key_columns |-> keys,
     keep_option |-> keep, use_model |-> um]

\* three rows, two of them equal on both columns
GoodSheet ==
    Sheet(TRUE, << <<T_ab, T_a_b>>, <<T_ab, T_a_b>>, <<T_abc, T_a_c>> >>,
          <<"name">>, "first", FALSE)

\* a keep policy drop_duplicates rejects
BadKeepSheet ==
    Sheet(TRUE, << <<T_ab, T_a_b>>, <<T_ab, T_a_b>> >>, <<"name">>, "none", FALSE)

\* a worksheet read_excel does not find
MissingSheet == Sheet(FALSE, <<>>, <<"name">>, "first", FALSE)

\* a worksheet without rows
EmptySheet == Sheet(TRUE, <<>>, <<"name">>, "first", FALSE)

\* a worksheet without configured key columns
NoKeySheet == Sheet(TRUE, << <<T_ab, T_a_b>>, <<T_ab, T_a_b>> >>, <<>>, "first", FALSE)

\* a worksheet sent to the similarity engine
ModelSheet ==
    Sheet(TRUE, << <<T_ab, T_a_b>>, <<T_ab, T_a_c>>, <<T_a_b, T_a_b>> >>,
          <<"address">>, "last", TRUE)

\* the workbooks: the worksheets of dedup_config in its order
Workbooks ==
    { <<GoodSheet>>, <<GoodSheet, BadKeepSheet>>, <<MissingSheet, GoodSheet>>,
      <<NoKeySheet, ModelSheet>>, <<EmptySheet>>, <<ModelSheet, GoodSheet>> }

Batches == UNION { [1..n -> Workbooks] : n \in 0..MaxFiles }

\* the saved enable_model, whether the model loads, and what its encoder
\* does during the batch
BatchModelOptions ==
    { [enable_model |-> FALSE, ready |-> FALSE, wo |-> [ok |-> FALSE, score |-> Zero]],
      [enable_model |-> TRUE, ready |-> FALSE, wo |-> [ok |-> FALSE, score |-> Zero]] }
    \cup { [enable_model |-> TRUE, ready |-> TRUE, wo |-> wo] : wo \in WrapperOutcomes }

\* lines 37-41: the thread as constructed
InitBatch ==
    /\ \E paths \in Batches, o \in BatchModelOptions :
          /\ batch = [pc |-> "start", file_paths |-> paths, is_running |-> TRUE,
                      index |-> 0, results |-> <<>>, total_files |-> 0,
                      processed_files |-> 0, file_completed |-> <<>>,
                      batch_completed |-> <<>>, wo |-> o.wo]
          /\ settings = [DefaultSettings EXCEPT !.enable_model = o.enable_model]
          /\ model_ready = o.ready
    /\ df = <<>>
    /\ columns = <<>>
    /\ threshold = Scalar(<<7, 10>>)
    /\ keep_option = "first"
    /\ use_model = FALSE
    /\ loc = NotStarted
    /\ last_cmp = NoComparison
    /\ claim_log = <<>>
    /\ key_columns = <<>>
    /\ exact = ExactIdle
    /\ pipe = PipeIdle
    /\ pure = PureIdle
    /\ svc = ServiceIdle
    /\ dl = DownloaderIdle

\* lines 46-47: clear_files and add_files
BatchStart ==
    /\ batch.pc = "start"
    /\ batch' = [batch EXCEPT !.pc = "loop",
                              !.results = <<>>,
                              !.processed_files = 0,
                              !.total_files = Len(batch.file_paths)]
    /\ UNCHANGED <<inputs, loc, last_cmp, claim_log, key_columns, exact, pipe, pure, svc, dl>>

\* the workbook at position index
CurrentFile == batch.file_paths[batch.index + 1]

\* lines 65-76 on the entry process_file stored: results, the counter and
\* the signal file_completed
batch_record(b, entry) ==
    [b EXCEPT !.results = (b.index :> entry) @@ b.results,
              !.processed_files = b.processed_files + 1,
              !.file_completed =
                  Append(b.file_completed,
                         [success |-> entry.stats.success, path |-> b.index,
                          error |-> entry.stats.error]),
              !.index = b.index + 1,
              !.pc = "loop"]

\* lines 50-62: the next workbook is taken when is_running is still set
BatchNext ==
    /\ batch.pc = "loop"
    /\ batch.index < Len(batch.file_paths)
    /\ batch.is_running
    /\ batch' = [batch EXCEPT !.pc = "file"]
    /\ UNCHANGED <<inputs, loc, last_cmp, claim_log, key_columns, exact, pipe, pure, svc, dl>>

\* lines 65-79: process_file on the workbook taken, the counter and the
\* signal file_completed
BatchFile ==
    /\ batch.pc = "file"
    /\ batch' = batch_record(batch, process_file(CurrentFile, settings, model_ready,
                                                  batch.wo))
    /\ UNCHANGED <<inputs, loc, last_cmp, claim_log, key_columns, exact, pipe, pure, svc, dl>>

\* lines 50-53: the loop ends after the last workbook or at a stop request
BatchLeave ==
    /\ batch.pc = "loop"
    /\ batch.index >= Len(batch.file_paths) \/ ~batch.is_running
    /\ batch' = [batch EXCEPT !.pc = "after"]
    /\ UNCHANGED <<inputs, loc, last_cmp, claim_log, key_columns, exact, pipe, pure, svc, dl>>

\* line 82: is_running is read once more after the loop
BatchCheck ==
    /\ batch.pc = "after"
    /\ batch' = [batch EXCEPT !.pc = IF batch.is_running THEN "report" ELSE "finished"]
    /\ UNCHANGED <<inputs, loc, last_cmp, claim_log, key_columns, exact, pipe, pure, svc, dl>>

\* lines 83-84: the report is generated and batch_completed is emitted
BatchReport ==
    /\ batch.pc = "report"
    /\ batch' = [batch EXCEPT !.pc = "finished",
                              !.batch_completed = <<generate_report(batch)>>]
    /\ UNCHANGED <<inputs, loc, last_cmp, claim_log, key_columns, exact, pipe, pure, svc, dl>>

\* lines 89-91: stop(), called from the thread of the user interface while
\* run() has not returned
BatchStop ==
    /\ batch.pc \in {"start", "loop", "file", "after", "report"}
    /\ batch.is_running
    /\ batch' = [batch EXCEPT !.is_running = FALSE]
    /\ UNCHANGED <<inputs, loc, last_cmp, claim_log, key_columns, exact, pipe, pure, svc, dl>>

NextBatch ==
    BatchStart \/ BatchNext \/ BatchFile \/ BatchLeave \/ BatchCheck \/ BatchReport
       \/ BatchStop

SpecBatch == InitBatch /\ [][NextBatch]_vars

(***************************************************************************)
(* model_inference.py: ModelService and the wrappers it keeps              *)
(***************************************************************************)
\* largest number of calls made on the service in one behaviour
MaxCalls == 3

\* model_id in self.active_models
IsActive(s, m) == \E k \in 1..Len(s.active_models) : s.active_models[k].model_id = m

\* self.active_models[model_id]
ActiveWrapper(s, m) ==
    s.active_models[CHOOSE k \in 1..Len(s.active_models) :
                       s.active_models[k].model_id = m].wrapper

\* BaseModelWrapper.is_ready, lines 76-83: a model attribute that was
\* deleted makes the call raise, which the callers' try blocks catch
is_ready(w) == w.is_loaded /\ w.model = "object"

\* get_model_wrapper, lines 469-472, with BaseModelWrapper.__init__, lines 18-28
NewWrapper(m) == [model_id |-> m, is_loaded |-> FALSE, model |-> "None"]

\* what load() can do, lines 105-146 and 290-329: TorchModelWrapper sets
\* self.model, LightModelWrapper loads vocab and embeddings and leaves
\* self.model None; every exception is caught and False returned
LoadOutcomes == {"ok", "failed"}

load(w, outcome) ==
    IF outcome = "failed" THEN [w EXCEPT !.is_loaded = FALSE, !.model = "None"]
    ELSE IF w.model_id = "light-m" THEN [w EXCEPT !.is_loaded = TRUE]
    ELSE [w EXCEPT !.is_loaded = TRUE, !.model = "object"]

\* what unload() can do, lines 148-176 and 331-348: LightModelWrapper only
\* assigns; TorchModelWrapper deletes self.model and calls
\* torch.cuda.empty_cache(), and an exception there returns False with the
\* attribute deleted; `if self.model:` on a deleted attribute raises
UnloadOutcomes(w) ==
    IF w.model = "deleted" THEN {"failed"}
    ELSE IF w.model = "object" THEN {"ok", "failed"}
    ELSE {"ok"}

unload(w, outcome) ==
    IF outcome = "ok" THEN [w EXCEPT !.is_loaded = FALSE, !.model = "None"]
    ELSE [w EXCEPT !.model = "deleted"]

\* wrapper.calculate_similarity that lets the ValueError of encode_text out
wrapper_similarity_raising(w, wo) ==
    IF ~is_ready(w) THEN [kind |-> "not_ready", raised |-> TRUE, value |-> Zero]
    ELSE [kind |-> IF wo.ok THEN "score" ELSE "encode_failed", raised |-> FALSE,
          value |-> wrapper_calculate_similarity(wo)]

\* lines 220-246 and 386-412, wrapper.calculate_similarity: encode_text
\* raises when the wrapper is not ready or the encoder fails, the except
\* clause returns 0.0
wrapper_similarity(w, wo) ==
    IF ~is_ready(w) THEN [kind |-> "not_ready", raised |-> FALSE, value |-> Zero]
    ELSE [kind |-> IF wo.ok THEN "score" ELSE "encode_failed", raised |-> FALSE,
          value |-> wrapper_calculate_similarity(wo)]

\* the models get_downloaded_models returns, in the order of models_info
downloaded_models(s) == SelectSeq(KnownModels, LAMBDA m : m \in s.downloaded)

\* the caller t returns from get_model_wrapper with the wrapper w; inside
\* calculate_similarity the call goes on at line 531
get_return(c, w, kind) ==
    [c EXCEPT !.wrapper = w,
              !.pc = IF c.op = "calc" THEN "calc_wrapper" ELSE "idle",
              !.result = [kind |-> kind, raised |-> FALSE, value |-> Zero]]

\* the caller returns from unload_model; inside unload_all_models the loop
\* of line 506 goes on
unload_return(c, kind) ==
    IF c.op = "unload_all"
    THEN [c EXCEPT !.pc = "all_next"]
    ELSE [c EXCEPT !.pc = "idle",
                   !.result = [kind |-> kind, raised |-> FALSE, value |-> Zero]]

\* an exception leaves the call
raise(c, kind) ==
    [c EXCEPT !.pc = "idle", !.result = [kind |-> kind, raised |-> TRUE, value |-> Zero]]

\* the service after the caller t has moved to c
WithCaller(s, t, c) == [s EXCEPT !.callers[t] = c]

\* self.active_models[model_id] = wrapper
store(active, m, w) ==
    IF \E k \in 1..Len(active) : active[k].model_id = m
    THEN [k \in 1..Len(active) |->
             IF active[k].model_id = m THEN [model_id |-> m, wrapper |-> w]
             ELSE active[k]]
    ELSE Append(active, [model_id |-> m, wrapper |-> w])

\* the keys of active_models in insertion order
active_keys(active) == [k \in 1..Len(active) |-> active[k].model_id]

\* the state of everything but the service
InitRest ==
    /\ df = <<>>
    /\ columns = <<>>
    /\ threshold = Scalar(<<7, 10>>)
    /\ keep_option = "first"
    /\ use_model = FALSE
    /\ settings = DefaultSettings
    /\ model_ready = FALSE
    /\ loc = NotStarted
    /\ last_cmp = NoComparison
    /\ claim_log = <<>>
    /\ key_columns = <<>>
    /\ exact = ExactIdle
    /\ pipe = PipeIdle
    /\ pure = PureIdle
    /\ batch = BatchIdle

\* ModelService.__init__, lines 437-440, over the models the manager has
\* marked as downloaded
InitService ==
    /\ \E d \in SUBSET {"bert", "light-m"} :
          svc = [ServiceIdle EXCEPT !.threads = {1}, !.downloaded = d]
    /\ dl = DownloaderIdle
    /\ InitRest

InitServiceConc ==
    /\ \E d \in SUBSET {"bert", "light-m"} :
          svc = [ServiceIdle EXCEPT !.threads = {1, 2}, !.downloaded = d]
    /\ dl = DownloaderIdle
    /\ InitRest

\* a call of the service begins: get_model_wrapper, unload_model,
\* unload_all_models (line 506 lists the keys) or calculate_similarity
SvcCall ==
    \E t \in svc.threads :
       /\ svc.callers[t].pc = "idle"
       /\ svc.calls < MaxCalls
       /\ \E op \in {"get", "unload", "unload_all", "calc"} :
          \E m \in ModelIds \cup {NoModel} :
             /\ m = NoModel => op \in {"calc", "unload_all"}
             /\ op = "unload_all" => m = NoModel
             /\ svc' = [WithCaller(svc, t,
                            [CallerIdle EXCEPT
                                !.op = op, !.model_id = m,
                                !.before = svc.active_models,
                                !.pending = IF op = "unload_all"
                                            THEN active_keys(svc.active_models)
                                            ELSE <<>>,
                                !.pc = CASE op = "get" -> "get_check"
                                         [] op = "unload" -> "unload_check"
                                         [] op = "unload_all" -> "all_next"
                                         [] op = "calc" -> "calc_start"])
                         EXCEPT !.calls = svc.calls + 1]
       /\ UNCHANGED <<inputs, loc, last_cmp, claim_log, key_columns, exact, pipe,
                      pure, batch, dl>>

\* get_model_wrapper, lines 453-465: the test of active_models, the model
\* information and the test of is_downloaded
GetCheck ==
    \E t \in svc.threads :
       LET c == svc.callers[t]
       IN  /\ c.pc = "get_check"
           /\ svc' = WithCaller(svc, t,
                         IF IsActive(svc, c.model_id) THEN [c EXCEPT !.pc = "get_cached"]
                         ELSE IF c.model_id \notin SeqToSet(KnownModels)
                              THEN get_return(c, NoWrapper, "unknown")
                         ELSE IF c.model_id \notin svc.downloaded
                              THEN get_return(c, NoWrapper, "not_downloaded")
                         ELSE [c EXCEPT !.pc = "get_load"])
           /\ UNCHANGED <<inputs, loc, last_cmp, claim_log, key_columns, exact, pipe,
                          pure, batch, dl>>

\* line 454: the lookup after the test; the entry may be gone by then
GetCached ==
    \E t \in svc.threads :
       LET c == svc.callers[t]
       IN  /\ c.pc = "get_cached"
           /\ svc' = WithCaller(svc, t,
                         IF IsActive(svc, c.model_id)
                         THEN get_return(c, ActiveWrapper(svc, c.model_id), "wrapper")
                         ELSE raise(c, "KeyError"))
           /\ UNCHANGED <<inputs, loc, last_cmp, claim_log, key_columns, exact, pipe,
                          pure, batch, dl>>

\* lines 469-477: a new wrapper is created and loaded; when load() returns
\* False the wrapper is dropped and None returned
GetLoad ==
    \E t \in svc.threads :
       LET c == svc.callers[t]
       IN  /\ c.pc = "get_load"
           /\ \E o \in LoadOutcomes :
                 svc' = IF o = "failed"
                        THEN [WithCaller(svc, t, get_return(c, NoWrapper, "load_failed"))
                                 EXCEPT !.last[c.model_id] = "load_failed"]
                        ELSE [WithCaller(svc, t,
                                 [c EXCEPT !.wrapper = Len(svc.wrappers) + 1,
                                           !.pc = "get_store"])
                                 EXCEPT !.wrappers =
                                            Append(svc.wrappers,
                                                   load(NewWrapper(c.model_id), o)),
                                        !.last[c.model_id] = "loaded"]
           /\ UNCHANGED <<inputs, loc, last_cmp, claim_log, key_columns, exact, pipe,
                          pure, batch, dl>>

\* lines 480-481: the wrapper is stored and returned
GetStore ==
    \E t \in svc.threads :
       LET c == svc.callers[t]
       IN  /\ c.pc = "get_store"
           /\ svc' = [WithCaller(svc, t, get_return(c, c.wrapper, "wrapper"))
                         EXCEPT !.active_models =
                                    store(svc.active_models, c.model_id, c.wrapper)]
           /\ UNCHANGED <<inputs, loc, last_cmp, claim_log, key_columns, exact, pipe,
                          pure, batch, dl>>

\* unload_model, lines 493-496: False for a model that is not active,
\* otherwise the wrapper is looked up
UnloadCheck ==
    \E t \in svc.threads :
       LET c == svc.callers[t]
       IN  /\ c.pc = "unload_check"
           /\ svc' = WithCaller(svc, t,
                         IF IsActive(svc, c.model_id)
                         THEN [c EXCEPT !.wrapper = ActiveWrapper(svc, c.model_id),
                                        !.pc = "unload_wrapper"]
                         ELSE unload_return(c, "False"))
           /\ UNCHANGED <<inputs, loc, last_cmp, claim_log, key_columns, exact, pipe,
                          pure, batch, dl>>

\* line 497: wrapper.unload(); when it fails False is returned at line 502
UnloadWrapper ==
    \E t \in svc.threads :
       LET c == svc.callers[t]
       IN  /\ c.pc = "unload_wrapper"
           /\ \E o \in UnloadOutcomes(svc.wrappers[c.wrapper]) :
                 svc' = [WithCaller(svc, t,
                            IF o = "ok" THEN [c EXCEPT !.pc = "unload_del"]
                            ELSE unload_return(c, "False"))
                           EXCEPT !.wrappers[c.wrapper] = unload(svc.wrappers[c.wrapper], o)]
           /\ UNCHANGED <<inputs, loc, last_cmp, claim_log, key_columns, exact, pipe,
                          pure, batch, dl>>

\* lines 499-502: the entry is deleted and True returned; the deletion of
\* an entry that is gone raises KeyError
UnloadDelete ==
    \E t \in svc.threads :
       LET c == svc.callers[t]
       IN  /\ c.pc = "unload_del"
           /\ svc' = IF IsActive(svc, c.model_id)
                      THEN [WithCaller(svc, t, unload_return(c, "True"))
                              EXCEPT !.active_models =
                                         SelectSeq(svc.active_models,
                                                   LAMBDA e : e.model_id # c.model_id),
                                     !.last[c.model_id] = "unloaded"]
                      ELSE WithCaller(svc, t, raise(c, "KeyError"))
           /\ UNCHANGED <<inputs, loc, last_cmp, claim_log, key_columns, exact, pipe,
                          pure, batch, dl>>

\* unload_all_models, lines 506-507: the next key of the list
UnloadAllNext ==
    \E t \in svc.threads :
       LET c == svc.callers[t]
       IN  /\ c.pc = "all_next"
           /\ svc' = WithCaller(svc, t,
                         IF c.pending = <<>>
                         THEN [c EXCEPT !.pc = "idle",
                                        !.result = [kind |-> "None", raised |-> FALSE,
                                                    value |-> Zero]]
                         ELSE [c EXCEPT !.model_id = Head(c.pending),
                                        !.pending = Tail(c.pending),
                                        !.pc = "unload_check"])
           /\ UNCHANGED <<inputs, loc, last_cmp, claim_log, key_columns, exact, pipe,
                          pure, batch, dl>>

\* calculate_similarity, lines 522-529: without a model id the first
\* downloaded model is taken, and 0.0 returned when there is none
CalcStart ==
    \E t \in svc.threads :
       LET c == svc.callers[t]
       IN  /\ c.pc = "calc_start"
           /\ svc' = WithCaller(svc, t,
                         IF c.model_id # NoModel THEN [c EXCEPT !.pc = "get_check"]
                         ELSE IF downloaded_models(svc) = <<>>
                              THEN [c EXCEPT !.pc = "idle",
                                             !.result = [kind |-> "no_models",
                                                         raised |-> FALSE, value |-> Zero]]
                         ELSE [c EXCEPT !.model_id = downloaded_models(svc)[1],
                                        !.pc = "get_check"])
           /\ UNCHANGED <<inputs, loc, last_cmp, claim_log, key_columns, exact, pipe,
                          pure, batch, dl>>

\* lines 532-535: 0.0 when no wrapper was obtained
CalcWrapper ==
    \E t \in svc.threads :
       LET c == svc.callers[t]
       IN  /\ c.pc = "calc_wrapper"
           /\ svc' = WithCaller(svc, t,
                         IF c.wrapper = NoWrapper THEN [c EXCEPT !.pc = "idle"]
                         ELSE [c EXCEPT !.pc = "using"])
           /\ UNCHANGED <<inputs, loc, last_cmp, claim_log, key_columns, exact, pipe,
                          pure, batch, dl>>

\* line 538: wrapper.calculate_similarity on the wrapper obtained
CalcUse ==
    \E t \in svc.threads :
       LET c == svc.callers[t]
       IN  /\ c.pc = "using"
           /\ \E wo \in WrapperOutcomes :
                 svc' = WithCaller(svc, t,
                           [c EXCEPT !.pc = "idle",
                                     !.result = wrapper_similarity(svc.wrappers[c.wrapper],
                                                                   wo)])
           /\ UNCHANGED <<inputs, loc, last_cmp, claim_log, key_columns, exact, pipe,
                          pure, batch, dl>>

NextService ==
    SvcCall \/ GetCheck \/ GetCached \/ GetLoad \/ GetStore \/ UnloadCheck
       \/ UnloadWrapper \/ UnloadDelete \/ UnloadAllNext \/ CalcStart \/ CalcWrapper
       \/ CalcUse

\* one caller at a time
SpecService == InitService /\ [][NextService]_vars

\* the worker thread of a batch and the thread of the user interface
SpecServiceConc == InitServiceConc /\ [][NextService]_vars

(***************************************************************************)
(* model_manager.py: ModelDownloader                                       *)
(***************************************************************************)
\* largest number of download threads started in one behaviour
MaxDownloads == 2

\* the models whose download is asked for
DownloadIds == {"bert", "light-m"}

\* model_id in self.active_downloads
IsDownloading(d, m) == m \in DOMAIN d.active_downloads

\* del self.active_downloads[model_id]
without(active, m) == [x \in (DOMAIN active) \ {m} |-> active[x]]

\* download_complete.emit(model_id, success, message) by or about thread
\* number thread
emitted(d, m, success, message, thread) ==
    Append(d.complete, [model_id |-> m, success |-> success, message |-> message,
                        thread |-> thread])

\* ModelDownloader.__init__, lines 102-114
InitDownload ==
    /\ dl = [DownloaderIdle EXCEPT !.on = TRUE]
    /\ svc = ServiceIdle
    /\ InitRest

\* download_model, lines 116-138: nothing happens for a model that has an
\* entry in active_downloads; otherwise a thread is created, entered and
\* started
DownloadModel ==
    /\ dl.on
    /\ Len(dl.threads) < MaxDownloads
    /\ \E m \in DownloadIds :
          /\ ~IsDownloading(dl, m)
          /\ dl' = [dl EXCEPT
                       !.threads = Append(dl.threads, [model_id |-> m, pc |-> "running"]),
                       !.active_downloads =
                           (m :> (Len(dl.threads) + 1)) @@ dl.active_downloads]
    /\ UNCHANGED <<inputs, loc, last_cmp, claim_log, key_columns, exact, pipe, pure,
                   batch, svc>>

\* _download_thread, lines 148-182: the file is fetched and written, the
\* model information marked as downloaded, download_complete emitted
ThreadSucceed ==
    /\ \E k \in 1..Len(dl.threads) :
          /\ dl.threads[k].pc = "running"
          /\ dl' = [dl EXCEPT
                       !.threads[k].pc = "finally",
                       !.is_downloaded = dl.is_downloaded \cup {dl.threads[k].model_id},
                       !.marked_by = dl.marked_by \cup {k},
                       !.complete = emitted(dl, dl.threads[k].model_id, TRUE,
                                            "complete", k)]
    /\ UNCHANGED <<inputs, loc, last_cmp, claim_log, key_columns, exact, pipe, pure,
                   batch, svc>>

\* lines 184-190: an exception of the request or of the file
ThreadFail ==
    /\ \E k \in 1..Len(dl.threads) :
          /\ dl.threads[k].pc = "running"
          /\ dl' = [dl EXCEPT
                       !.threads[k].pc = "finally",
                       !.complete = emitted(dl, dl.threads[k].model_id, FALSE,
                                            "failed", k)]
    /\ UNCHANGED <<inputs, loc, last_cmp, claim_log, key_columns, exact, pipe, pure,
                   batch, svc>>

\* lines 192-195: the entry of the model id is deleted, whichever thread it
\* names; a KeyError of the deletion ends the thread all the same
ThreadFinally ==
    /\ \E k \in 1..Len(dl.threads) :
          /\ dl.threads[k].pc = "finally"
          /\ dl' = [dl EXCEPT
                       !.threads[k].pc = "done",
                       !.active_downloads =
                           without(dl.active_downloads, dl.threads[k].model_id)]
    /\ UNCHANGED <<inputs, loc, last_cmp, claim_log, key_columns, exact, pipe, pure,
                   batch, svc>>

\* cancel_download, lines 197-221, returning True: the entry is deleted and
\* download_complete emitted; without an entry False is returned
CancelDownload ==
    /\ \E m \in DownloadIds :
          /\ IsDownloading(dl, m)
          /\ dl' = [dl EXCEPT
                       !.active_downloads = without(dl.active_downloads, m),
                       !.cancelled = dl.cancelled \cup {dl.active_downloads[m]},
                       !.complete = emitted(dl, m, FALSE, "cancelled",
                                            dl.active_downloads[m])]
    /\ UNCHANGED <<inputs, loc, last_cmp, claim_log, key_columns, exact, pipe, pure,
                   batch, svc>>

NextDownload ==
    DownloadModel \/ ThreadSucceed \/ ThreadFail \/ ThreadFinally \/ CancelDownload

SpecDownload == InitDownload /\ [][NextDownload]_vars

(***************************************************************************)
(* Properties of the grouping run                                          *)
(***************************************************************************)
Members(g) == SeqToSet(loc.group_info[g])

\* the positions recorded in some group of the group map
Grouped == UNION { Members(g) : g \in DOMAIN loc.group_info }

\* the row at position p of df is a row of result_df
InResult(p) == \E r \in 1..Len(loc.result_df) : loc.result_df[r] = iloc(df, p)

\* the configured columns the dataset has, in configuration order
PresentColumns == SelectSeq(columns, LAMBDA c : c.col \in DfColumns)

\* C1: every record index is in at most one group of the group map, and
\* within its group at most once; the row that anchors the group under
\* construction is unclaimed and the group under construction shares no
\* row with a recorded group.
C1_OneGroupPerRecord ==
    /\ \A g \in DOMAIN loc.group_info :
          \A k1, k2 \in 1..Len(loc.group_info[g]) :
             k1 # k2 => loc.group_info[g][k1] # loc.group_info[g][k2]
    /\ \A g, h \in DOMAIN loc.group_info : g # h => Members(g) \cap Members(h) = {}
    /\ loc.pc \in {"inner", "close"} =>
          /\ ~loc.is_duplicate[loc.i]
          /\ loc.similar_indices[1] = loc.i
          /\ SeqToSet(loc.similar_indices) \cap Grouped = {}

\* a finished metric-only run in which a claimed row matches a later row
\* that its anchor does not match
C1_Witness ==
    /\ loc.pc = "done"
    /\ ~use_model
    /\ columns = <<Col("name", "levenshtein")>>
    /\ \E g \in DOMAIN loc.group_info :
          \E k \in 2..Len(loc.group_info[g]) :
             \E q \in 0..(Len(df) - 1) :
                /\ q > loc.group_info[g][k]
                /\ q \notin Grouped
                /\ Geq(levenshtein_similarity(
                          iloc(df, loc.group_info[g][k]).cells["name"],
                          iloc(df, q).cells["name"]),
                       ThresholdOf(threshold, "name"))

\* C2: for every recorded group, the scores of every non-anchor member
\* against the group's first member cover every configured column of the
\* dataset and each meets that column's threshold; without the model the
\* score is the column's metric on the two cells.
C2_MembersMeetThresholds ==
    \A g \in DOMAIN loc.group_info :
       \A k \in 2..Len(loc.group_info[g]) :
          LET anchor == loc.group_info[g][1]
              m == loc.group_info[g][k]
          IN  /\ m \in DOMAIN claim_log
              /\ Len(claim_log[m]) = Len(PresentColumns)
              /\ \A c \in 1..Len(PresentColumns) :
                    LET e == claim_log[m][c]
                        col == PresentColumns[c].col
                    IN  /\ e.col = col
                        /\ e.text1 = iloc(df, anchor).cells[col]
                        /\ e.text2 = iloc(df, m).cells[col]
                        /\ Geq(e.similarity, ThresholdOf(threshold, col))
                        /\ ~use_model =>
                              Eq(e.similarity,
                                 calculate_basic_similarity(
                                    e.text1, e.text2, PresentColumns[c].method))

\* a finished run with per-column thresholds and a group two of whose
\* non-anchor members are below the name threshold against each other
C2_Witness ==
    /\ loc.pc = "done"
    /\ Len(PresentColumns) = 2
    /\ \E g \in DOMAIN loc.group_info :
          \E k1, k2 \in 2..Len(loc.group_info[g]) :
             Lt(levenshtein_similarity(
                   iloc(df, loc.group_info[g][k1]).cells["name"],
                   iloc(df, loc.group_info[g][k2]).cells["name"]),
                ThresholdOf(threshold, "name"))

\* C3: for every recorded group, 'first' leaves exactly the member of
\* lowest index in the result, 'last' exactly the member of highest index,
\* and any other policy leaves every member.
C3_KeepPolicy ==
    \A g \in DOMAIN loc.group_info :
       LET grp == loc.group_info[g]
           lowest == CHOOSE p \in Members(g) : \A q \in Members(g) : p <= q
           highest == CHOOSE p \in Members(g) : \A q \in Members(g) : p >= q
       IN  /\ Len(grp) > 1
           /\ keep_option = "first" =>
                 \A p \in Members(g) : InResult(p) <=> p = lowest
           /\ keep_option = "last" =>
                 \A p \in Members(g) : InResult(p) <=> p = highest
           /\ keep_option \notin {"first", "last"} =>
                 \A p \in Members(g) : InResult(p)

\* a finished run with policy 'last' and a group of three rows
C3_Witness ==
    /\ loc.pc = "done"
    /\ keep_option = "last"
    /\ \E g \in DOMAIN loc.group_info : Len(loc.group_info[g]) = 3

(***************************************************************************)
(* Properties of the hybrid scoring                                        *)
(***************************************************************************)
\* the metric score of the two texts of a compared column
BasicOf(e) == calculate_basic_similarity(e.text1, e.text2, e.method)

\* the same call with the model switched off
MetricOnlyRun ==
    sbd_run(NotStarted, [Args EXCEPT !.use_model = FALSE], [ok |-> FALSE, score |-> Zero])

\* C4: with the model enabled, strategy always_model and a model that fails
\* on every call, the finished run returns the dataset and the group map of
\* the metric-only run on the same arguments.
C4_FallbackEquivalence ==
    (loc.pc = "done" /\ use_model /\ settings.hybrid_strategy = "always_model"
        /\ ~model_ready)
    => /\ loc.result_df = MetricOnlyRun.result_df
       /\ loc.group_info = MetricOnlyRun.group_info

\* C5: under every strategy, the score of a compared column whose model
\* call failed is the metric score of the column's configured metric.
C5_FailedCallUsesMetric ==
    (last_cmp.made /\ use_model) =>
       \A k \in 1..Len(last_cmp.trace) :
          (last_cmp.trace[k].model_called /\ last_cmp.trace[k].model_failed)
             => Eq(last_cmp.trace[k].similarity, BasicOf(last_cmp.trace[k]))

C7_LengthBased ==
    (last_cmp.made /\ use_model /\ settings.hybrid_strategy = "length_based") =>
       \A k \in 1..Len(last_cmp.trace) :
          /\ last_cmp.trace[k].model_called <=>
                \/ Len(last_cmp.trace[k].text1) > settings.min_text_length
                \/ Len(last_cmp.trace[k].text2) > settings.min_text_length
          /\ ~last_cmp.trace[k].model_called =>
                last_cmp.trace[k].similarity = BasicOf(last_cmp.trace[k])

\* a comparison under length_based in which only one of the two texts is
\* longer than min_text_length, scored by the model
C7_Witness ==
    /\ last_cmp.made /\ use_model /\ settings.hybrid_strategy = "length_based"
    /\ \E k \in 1..Len(last_cmp.trace) :
          /\ Len(last_cmp.trace[k].text1) <= settings.min_text_length
          /\ Len(last_cmp.trace[k].text2) > settings.min_text_length
          /\ last_cmp.trace[k].model_called
          /\ ~last_cmp.trace[k].model_failed

(***************************************************************************)
(* Properties of deduplicate_dataframe                                     *)
(***************************************************************************)
\* the positions of df whose rows agree with the row at position p on every
\* key column
KeyGroup(p) ==
    { q \in 1..Len(df) :
         \A k \in 1..Len(key_columns) :
            df[q].cells[key_columns[k]] = df[p].cells[key_columns[k]] }

\* the index labels of the rows of a dataset
LabelSet(d) == { d[r].idx : r \in 1..Len(d) }

\* C8: a second call with the same key columns and keep policy on the
\* output of the first returns the same rows in the same order.
C8_Idempotent ==
    exact.pc = "twice" => exact.out2.rows = exact.out1.rows

\* both calls made, the first of which removed rows and left at least two
C8_Witness ==
    /\ exact.pc = "twice"
    /\ Len(exact.out1.rows) < Len(df)
    /\ Len(exact.out1.rows) >= 2

\* C9: the output holds unaltered rows of the input in their original
\* order; with 'first' a row survives exactly when it is the first of the
\* rows sharing its key, with 'last' when it is the last of them, with
\* 'False' when no other row shares its key.
C9_ExactKeep ==
    exact.pc \in {"once", "twice"} =>
       LET out == exact.out1.rows
       IN  /\ \A r \in 1..Len(out) :
                 out[r].idx + 1 \in 1..Len(df) /\ out[r] = df[out[r].idx + 1]
           /\ \A r1, r2 \in 1..Len(out) : r1 < r2 => out[r1].idx < out[r2].idx
           /\ \A p \in 1..Len(df) :
                 /\ keep_option = "first" =>
                       ((p - 1) \in LabelSet(out) <=> \A q \in KeyGroup(p) : p <= q)
                 /\ keep_option = "last" =>
                       ((p - 1) \in LabelSet(out) <=> \A q \in KeyGroup(p) : p >= q)
                 /\ keep_option = "False" =>
                       ((p - 1) \in LabelSet(out) <=> KeyGroup(p) = {p})
                 /\ KeyGroup(p) = {p} => (p - 1) \in LabelSet(out)

\* a call with two key columns that removed a row, on a dataset with two
\* rows that agree on the first key column only
C9_Witness ==
    /\ exact.pc = "once"
    /\ Len(key_columns) = 2
    /\ Len(exact.out1.rows) < Len(df)
    /\ \E p, q \in 1..Len(df) :
          /\ df[p].cells[key_columns[1]] = df[q].cells[key_columns[1]]
          /\ df[p].cells[key_columns[2]] # df[q].cells[key_columns[2]]

(***************************************************************************)
(* Threshold boundaries of the edit-distance metric                        *)
(***************************************************************************)
SingleLevenshteinColumn ==
    ~use_model /\ columns = <<Col("name", "levenshtein")>> /\ threshold.kind = "scalar"

Normalized(p) == preprocess_text(iloc(df, p).cells["name"], TRUE, TRUE)

\* C10: with the single edit-distance column "name" and no model, at
\* threshold 1.0 the rows of a group all have the same normalized string;
\* at threshold 0.0 the finished run has recorded no more than one group,
\* and on a dataset of two or more rows that group holds every row.
C10_ThresholdBoundary ==
    SingleLevenshteinColumn =>
       /\ Eq(threshold.value, One) =>
             \A g \in DOMAIN loc.group_info :
                \A p, q \in Members(g) : Normalized(p) = Normalized(q)
       /\ (Eq(threshold.value, Zero) /\ loc.pc = "done") =>
             /\ Cardinality(DOMAIN loc.group_info) <= 1
             /\ Len(df) >= 2 =>
                   /\ DOMAIN loc.group_info = {0}
                   /\ loc.group_info[0] = [k \in 1..Len(df) |-> k - 1]

\* a finished run at threshold 0.0 on three rows, two of which have
\* edit-distance similarity 0
C10_Witness ==
    /\ SingleLevenshteinColumn
    /\ Eq(threshold.value, Zero)
    /\ loc.pc = "done"
    /\ Len(df) = 3
    /\ \E p, q \in 0..2 :
          Eq(levenshtein_similarity(iloc(df, p).cells["name"],
                                    iloc(df, q).cells["name"]), Zero)

(***************************************************************************)
(* Frame, group map and absent columns of the grouping run                 *)
(***************************************************************************)
\* the positions the keep policy removes: of every recorded group all
\* members but the first under 'first', all but the last under 'last'
RemovedByPolicy ==
    UNION { { loc.group_info[g][k] : k \in
                 IF keep_option = "first" THEN 2..Len(loc.group_info[g])
                 ELSE IF keep_option = "last" THEN 1..(Len(loc.group_info[g]) - 1)
                 ELSE {} }
            : g \in DOMAIN loc.group_info }

\* C13: the dataset returned holds rows of the input, each unaltered and
\* under its own index label, in ascending order of their positions in the
\* input; the rows it lacks are exactly the rows the keep policy removes
\* from the recorded groups, so every row of no recorded group is present.
C13_Frame ==
    loc.pc = "done" =>
       /\ \A r \in 1..Len(loc.result_df) :
             /\ loc.result_df[r].idx \in 0..(Len(df) - 1)
             /\ loc.result_df[r] = iloc(df, loc.result_df[r].idx)
       /\ \A r1, r2 \in 1..Len(loc.result_df) :
             r1 < r2 => loc.result_df[r1].idx < loc.result_df[r2].idx
       /\ LabelSet(loc.result_df) = (0..(Len(df) - 1)) \ RemovedByPolicy
       /\ \A p \in 0..(Len(df) - 1) : p \notin Grouped => InResult(p)

\* a finished run under 'first' that removed two rows of one group and
\* kept a row of no group that lies between them
C13_Witness ==
    /\ loc.pc = "done"
    /\ keep_option = "first"
    /\ \E p \in 0..(Len(df) - 1) :
          /\ p \notin Grouped
          /\ \E q1, q2 \in RemovedByPolicy : q1 < p /\ p < q2

\* C14: the ids of the group map are 0 .. group_id - 1; a group with a
\* smaller id has a smaller first member; every member list has more than
\* one member and is strictly ascending; the list under construction
\* starts with the anchor i and is strictly ascending, and it is the list
\* that is recorded.
C14_GroupMapShape ==
    /\ loc.pc # "start" => DOMAIN loc.group_info = 0..(loc.group_id - 1)
    /\ \A g, h \in DOMAIN loc.group_info :
          g < h => loc.group_info[g][1] < loc.group_info[h][1]
    /\ \A g \in DOMAIN loc.group_info :
          /\ Len(loc.group_info[g]) > 1
          /\ \A k \in 1..(Len(loc.group_info[g]) - 1) :
                loc.group_info[g][k] < loc.group_info[g][k + 1]
    /\ loc.pc \in {"inner", "close"} =>
          /\ loc.similar_indices[1] = loc.i
          /\ \A k \in 1..(Len(loc.similar_indices) - 1) :
                loc.similar_indices[k] < loc.similar_indices[k + 1]
          /\ \A g \in DOMAIN loc.group_info : loc.group_info[g][1] < loc.i

\* a finished run with two recorded groups whose index ranges interleave
C14_Witness ==
    /\ loc.pc = "done"
    /\ DOMAIN loc.group_info = {0, 1}
    /\ loc.group_info[0][2] > loc.group_info[1][1]

\* the metric score of the rows at positions i and j on the configured
\* column c
MetricScore(c, i, j) ==
    calculate_basic_similarity(iloc(df, i).cells[c.col], iloc(df, j).cells[c.col],
                               c.method)

\* C16: a comparison records no score for a configured column the dataset
\* lacks; without the model the compared row joins the group of the anchor
\* exactly when the metric score of every configured column the dataset
\* has reaches that column's threshold; when the dataset has none of the
\* configured columns the compared row always joins.
C16_AbsentColumnSkipped ==
    last_cmp.made =>
       /\ \A k \in 1..Len(last_cmp.trace) : last_cmp.trace[k].col \in DfColumns
       /\ ~use_model =>
             (loc.is_duplicate[last_cmp.j] <=>
                \A c \in 1..Len(PresentColumns) :
                   Geq(MetricScore(PresentColumns[c], last_cmp.i, last_cmp.j),
                       ThresholdOf(threshold, PresentColumns[c].col)))
       /\ PresentColumns = <<>> => loc.is_duplicate[last_cmp.j]

\* a finished run configured with an absent column and a present one that
\* recorded a group and left a row out of it
C16_Witness ==
    /\ loc.pc = "done"
    /\ Len(PresentColumns) = 1
    /\ Len(columns) = 2
    /\ Grouped # {}
    /\ Cardinality(Grouped) < Len(df)

(***************************************************************************)
(* Properties of the pipeline                                              *)
(***************************************************************************)
\* deduplicate_dataframe on the arguments of the pipeline
ExactStage == deduplicate_dataframe(df, key_columns, keep_option)

\* similarity_based_deduplication on the dataset d with the configuration of
\* the pipeline, the effective model flag and the encoder of the run
GroupingOn(d) ==
    sbd_run(NotStarted,
            SimilarArgs(d, columns, threshold, keep_option,
                        use_model /\ settings.enable_model, settings, model_ready),
            pipe.wo)

\* C11: the pipeline raises only when the exact stage raises.  Its result
\* is: with exact key columns and similarity columns, the dataset and the
\* group map of the grouping applied to the output of the exact stage;
\* with exact key columns only, the output of the exact stage and an empty
\* group map; with similarity columns only, the dataset and the group map
\* of the grouping applied to the input; with neither, the input and an
\* empty group map.
C11_StageOrder ==
    /\ pipe.pc = "raised" => (key_columns # <<>> /\ ExactStage.raised)
    /\ pipe.pc = "done" =>
          /\ (key_columns # <<>> /\ columns # <<>>) =>
                /\ ~ExactStage.raised
                /\ pipe.df_similar = GroupingOn(ExactStage.rows).result_df
                /\ pipe.group_info = GroupingOn(ExactStage.rows).group_info
          /\ (key_columns # <<>> /\ columns = <<>>) =>
                /\ ~ExactStage.raised
                /\ pipe.df_similar = ExactStage.rows
                /\ pipe.group_info = <<>>
          /\ (key_columns = <<>> /\ columns # <<>>) =>
                /\ pipe.df_similar = GroupingOn(df).result_df
                /\ pipe.group_info = GroupingOn(df).group_info
          /\ (key_columns = <<>> /\ columns = <<>>) =>
                /\ pipe.df_similar = df
                /\ pipe.group_info = <<>>

\* a finished pipeline with both stages configured whose exact stage removed
\* a row and whose group map differs from the group map of the grouping
\* applied to the input
C11_Witness ==
    /\ pipe.pc = "done"
    /\ key_columns # <<>>
    /\ columns # <<>>
    /\ Len(pipe.df_exact) < Len(df)
    /\ pipe.group_info # <<>>
    /\ pipe.group_info # GroupingOn(df).group_info

\* C12: on an empty dataset deduplicate_dataframe returns an empty dataset
\* without raising for every list of key columns and every keep policy,
\* similarity_based_deduplication returns an empty dataset and an empty
\* group map, and the pipeline does not raise, passes an empty dataset to
\* its second stage and returns an empty dataset and an empty group map.
C12_EmptyDataset ==
    df = <<>> =>
       /\ \A keys \in PipeKeyLists \ {<<>>} :
             /\ ~deduplicate_dataframe(df, keys, keep_option).raised
             /\ deduplicate_dataframe(df, keys, keep_option).rows = <<>>
       /\ GroupingOn(df).pc = "done"
       /\ GroupingOn(df).result_df = <<>>
       /\ GroupingOn(df).group_info = <<>>
       /\ pipe.pc # "raised"
       /\ pipe.pc \in {"exact", "done"} => pipe.df_exact = <<>>
       /\ pipe.pc = "done" => (pipe.df_similar = <<>> /\ pipe.group_info = <<>>)

\* a finished pipeline on an empty dataset with both stages configured and
\* a keep policy that drop_duplicates rejects on a dataset with rows
C12_Witness ==
    /\ df = <<>>
    /\ pipe.pc = "done"
    /\ key_columns # <<>>
    /\ columns # <<>>
    /\ keep_option = "none"

\* C15: every index of the group map returned by the pipeline is a position
\* of the dataset passed to the pipeline, and the row the grouping stage
\* handled under that index is the row at that position of that dataset.
C15_IndicesOfInput ==
    pipe.pc = "done" =>
       \A g \in DOMAIN pipe.group_info :
          \A k \in 1..Len(pipe.group_info[g]) :
             /\ pipe.group_info[g][k] < Len(df)
             /\ iloc(pipe.df_exact, pipe.group_info[g][k])
                   = iloc(df, pipe.group_info[g][k])

(***************************************************************************)
(* Properties of the functions of SimilarityCalculator                     *)
(***************************************************************************)
\* the text without its punctuation (if rp) and its whitespace (if rs),
\* trimmed
Normal(text, rp, rs) ==
    Strip(SelectSeq(text, LAMBDA c : (rp => NotPunct(c)) /\ (rs => NotSpace(c))))

\* the unit-cost edit distance: the least number of insertions, deletions
\* and substitutions that turn s into t
RECURSIVE EditDistance(_, _)
EditDistance(s, t) ==
    IF s = <<>> THEN Len(t)
    ELSE IF t = <<>> THEN Len(s)
    ELSE Min3(EditDistance(Tail(s), t) + 1,
              EditDistance(s, Tail(t)) + 1,
              EditDistance(Tail(s), Tail(t)) + (IF Head(s) = Head(t) THEN 0 ELSE 1))

\* the value 1 - d / n for the edit distance d of two texts and the length
\* n of the longer one
OneMinusRatio(out, s, t) ==
    Eq(out, <<Max(Len(s), Len(t)) - EditDistance(s, t), Max(Len(s), Len(t))>>)

\* C17: levenshtein_similarity of two strings is 1.0 when both normalized
\* strings are empty, 0.0 when exactly one is, and otherwise 1 minus their
\* unit-cost edit distance divided by the longer normalized length; it is
\* at least 0 and at most 1, and 1.0 for two strings with the same
\* normalized string.
C17_LevenshteinSimilarity ==
    pure.pc = "levenshtein_similarity" =>
       /\ IF Normal(pure.a.text, TRUE, TRUE) = <<>>
             /\ Normal(pure.b.text, TRUE, TRUE) = <<>>
          THEN Eq(pure.out, One)
          ELSE IF Normal(pure.a.text, TRUE, TRUE) = <<>>
                  \/ Normal(pure.b.text, TRUE, TRUE) = <<>>
          THEN Eq(pure.out, Zero)
          ELSE OneMinusRatio(pure.out, Normal(pure.a.text, TRUE, TRUE),
                             Normal(pure.b.text, TRUE, TRUE))
       /\ pure.out[2] > 0
       /\ Geq(pure.out, Zero)
       /\ Geq(One, pure.out)
       /\ Normal(pure.a.text, TRUE, TRUE) = Normal(pure.b.text, TRUE, TRUE)
             => Eq(pure.out, One)

\* a call on two strings of different normalized lengths, one of them with
\* a punctuation mark and the other with whitespace, scored strictly
\* between 0 and 1
C17_Witness ==
    /\ pure.pc = "levenshtein_similarity"
    /\ \E k \in 1..Len(pure.a.text) : ~NotPunct(pure.a.text[k])
    /\ \E k \in 1..Len(pure.b.text) : IsSpace(pure.b.text[k])
    /\ Len(Normal(pure.a.text, TRUE, TRUE)) # Len(Normal(pure.b.text, TRUE, TRUE))
    /\ Lt(Zero, pure.out)
    /\ Lt(pure.out, One)

\* the token set the segmenter produces from a text
TokenSet(text) == SeqToSet(segment_chinese(text))

\* C18: word_based_similarity of two strings is 1.0 when both normalized
\* texts (trimmed, without punctuation) are empty, 0.0 when exactly one is
\* empty, and otherwise the number of tokens the two token sets share
\* divided by the number of tokens of their union, 0.0 when the union is
\* empty.
C18_WordBasedSimilarity ==
    pure.pc = "word_based_similarity" =>
       LET na == Normal(pure.a.text, TRUE, FALSE)
           nb == Normal(pure.b.text, TRUE, FALSE)
       IN  IF na = <<>> /\ nb = <<>> THEN Eq(pure.out, One)
           ELSE IF na = <<>> \/ nb = <<>> THEN Eq(pure.out, Zero)
           ELSE IF TokenSet(na) \cup TokenSet(nb) = {} THEN Eq(pure.out, Zero)
           ELSE Eq(pure.out, <<Cardinality(TokenSet(na) \cap TokenSet(nb)),
                               Cardinality(TokenSet(na) \cup TokenSet(nb))>>)

\* C19: preprocess_text returns, for every value and both flags, a text
\* that neither starts nor ends with whitespace, that has no punctuation
\* character when remove_punctuation is set and no whitespace when
\* remove_spaces is set, and that is str(value) without the characters so
\* removed.
C19_PreprocessText ==
    pure.pc = "preprocess_text" =>
       /\ pure.out # <<>> =>
             (~IsSpace(pure.out[1]) /\ ~IsSpace(pure.out[Len(pure.out)]))
       /\ pure.remove_punctuation =>
             \A k \in 1..Len(pure.out) : NotPunct(pure.out[k])
       /\ pure.remove_spaces =>
             \A k \in 1..Len(pure.out) : ~IsSpace(pure.out[k])
       /\ pure.out = Normal(pure.a.text, pure.remove_punctuation, pure.remove_spaces)

(***************************************************************************)
(* Properties of the batch                                                 *)
(***************************************************************************)
\* what processing the k-th worksheet of the workbook at position f gives
\* when it is processed on its own
TableOutcome(f, k) ==
    process_sheet(batch.file_paths[f + 1][k], settings, model_ready, batch.wo)

\* C20: for every workbook the batch has processed, a table whose
\* processing fails has the failure and its message recorded, and every
\* table whose processing succeeds has its result stored, whether it comes
\* before or after a failing table; a batch that was not stopped ends with
\* every workbook processed.
C20_TableFailureIsolated ==
    /\ \A f \in DOMAIN batch.results :
          \A k \in 1..Len(batch.file_paths[f + 1]) :
             /\ TableOutcome(f, k).kind = "failed" =>
                   /\ ~batch.results[f].stats.success
                   /\ batch.results[f].stats.error = TableOutcome(f, k).error
             /\ TableOutcome(f, k).kind = "done" =>
                   /\ k \in DOMAIN batch.results[f].sheets
                   /\ batch.results[f].sheets[k].deduplicated
                         = TableOutcome(f, k).deduplicated
    /\ (batch.pc = "finished" /\ batch.is_running) =>
          DOMAIN batch.results = 0..(Len(batch.file_paths) - 1)

(***************************************************************************)
(* The keep policies of deduplicate_dataframe                              *)
(***************************************************************************)
\* C24: deduplicate_dataframe raises for none of the policies first, last,
\* none and 'False', and with the policy none it returns the rows of the
\* dataset unchanged.
C24_KeepNoneAccepted ==
    /\ exact.pc # "raised"
    /\ (keep_option = "none" /\ exact.pc \in {"once", "twice"}) =>
          exact.out1.rows = df

(***************************************************************************)
(* The figures process_file records                                        *)
(***************************************************************************)
\* the sum of one figure over the worksheets stored for a workbook
RECURSIVE SheetSum(_, _, _)
SheetSum(sheets, ks, field) ==
    IF ks = {} THEN 0
    ELSE LET k == CHOOSE x \in ks : TRUE
         IN  sheets[k].stats[field] + SheetSum(sheets, ks \ {k}, field)

\* removed = rows in - rows out, and never negative
Balanced(stats, rows_in, rows_out) ==
    /\ stats.total_rows = rows_in
    /\ stats.remaining_rows = rows_out
    /\ stats.duplicates_removed = rows_in - rows_out
    /\ stats.duplicates_removed >= 0

\* C23: in every result process_file recorded, each worksheet's figures
\* count the rows read and the rows kept with removed = read - kept >= 0,
\* the workbook's figures obey the same equation, and for a successful
\* workbook each figure is the sum of its worksheets' figures.
C23_RecordedFigures ==
    \A f \in DOMAIN batch.results :
       LET e == batch.results[f]
       IN  /\ \A k \in DOMAIN e.sheets :
                 Balanced(e.sheets[k].stats, Len(e.sheets[k].original),
                          Len(e.sheets[k].deduplicated))
           /\ e.stats.duplicates_removed = e.stats.total_rows - e.stats.remaining_rows
           /\ e.stats.duplicates_removed >= 0
           /\ e.stats.success =>
                 \A field \in {"total_rows", "remaining_rows", "duplicates_removed"} :
                    e.stats[field] = SheetSum(e.sheets, DOMAIN e.sheets, field)

\* a successful workbook with two processed worksheets that lost rows, next
\* to a failed workbook in the same batch
C23_Witness ==
    /\ \E f \in DOMAIN batch.results :
          /\ batch.results[f].stats.success
          /\ Cardinality(DOMAIN batch.results[f].sheets) >= 2
          /\ batch.results[f].stats.duplicates_removed > 0
    /\ \E f \in DOMAIN batch.results : ~batch.results[f].stats.success

(***************************************************************************)
(* stop() on a running BatchProcessingThread                               *)
(***************************************************************************)
\* C28: once stop() has cleared is_running, the thread begins no further
\* workbook and emits no batch_completed signal; the workbook being
\* processed is still recorded and its file_completed signal emitted.
C28_StopHonoured ==
    [][ ~batch.is_running =>
           /\ batch'.pc # "file"
           /\ batch'.batch_completed = batch.batch_completed
           /\ batch.pc = "file" =>
                 /\ batch.index \in DOMAIN batch'.results
                 /\ Len(batch'.file_completed) = Len(batch.file_completed) + 1 ]_vars

(***************************************************************************)
(* Greedy grouping by ascending anchor                                     *)
(***************************************************************************)
\* the rows at positions i and j meet the threshold of every configured
\* column of the dataset on the column's metric
Matches(i, j) ==
    \A c \in 1..Len(PresentColumns) :
       Geq(MetricScore(PresentColumns[c], i, j),
           ThresholdOf(threshold, PresentColumns[c].col))

\* the recorded scores cover every configured column of the dataset and
\* each meets its threshold
TraceMeets(trace) ==
    /\ Len(trace) = Len(PresentColumns)
    /\ \A k \in 1..Len(trace) :
          Geq(trace[k].similarity, ThresholdOf(threshold, trace[k].col))

\* the positions claimed as non-anchor members
Claimed == { p \in DOMAIN loc.is_duplicate : loc.is_duplicate[p] }

\* C25: a row j compared with the anchor i lies behind i, and it is added to
\* the group of i and marked claimed exactly when its scores meet the
\* threshold of every configured column; at the end of a metric-only run
\* each grouped non-anchor row matches no unclaimed row before its anchor,
\* and no two unclaimed rows match.
C25_GreedyGrouping ==
    /\ (last_cmp.made /\ loc.pc = "inner" /\ last_cmp.i = loc.i) =>
          /\ last_cmp.j > last_cmp.i
          /\ ~loc.is_duplicate[last_cmp.i]
          /\ (last_cmp.j \in SeqToSet(loc.similar_indices)) <=> TraceMeets(last_cmp.trace)
          /\ loc.is_duplicate[last_cmp.j] <=> TraceMeets(last_cmp.trace)
    /\ (loc.pc = "done" /\ ~use_model) =>
          /\ \A g \in DOMAIN loc.group_info :
                \A k \in 2..Len(loc.group_info[g]) :
                   /\ Matches(loc.group_info[g][1], loc.group_info[g][k])
                   /\ \A a \in (DOMAIN loc.is_duplicate) \ Claimed :
                         (a < loc.group_info[g][k] /\ Matches(a, loc.group_info[g][k]))
                            => loc.group_info[g][1] <= a
          /\ \A i, j \in (DOMAIN loc.is_duplicate) \ Claimed :
                i < j => ~Matches(i, j)

\* a finished metric-only run in which a claimed row matches an unclaimed row
\* behind its anchor as well as its anchor, and an unclaimed row lies between
\* the anchor and its member
C25_Witness ==
    /\ loc.pc = "done"
    /\ ~use_model
    /\ PresentColumns # <<>>
    /\ \E g \in DOMAIN loc.group_info :
          \E k \in 2..Len(loc.group_info[g]) :
             \E a \in (DOMAIN loc.is_duplicate) \ Claimed :
                /\ loc.group_info[g][1] < a
                /\ a < loc.group_info[g][k]
                /\ Matches(a, loc.group_info[g][k])

(***************************************************************************)
(* The model provider in the pipeline                                      *)
(***************************************************************************)
\* the grouping stage on the metrics alone
MetricOnly ==
    dws_similar(pipe.df_exact, columns, threshold, keep_option, FALSE,
                [settings EXCEPT !.enable_model = FALSE], FALSE,
                [ok |-> FALSE, score |-> Zero])

\* C26: a finished pipeline reached a call of the model provider only when
\* the argument use_model and the setting enable_model are both true; when
\* either is false the rows and the group map are those the metrics alone
\* give, whatever the provider would have answered.
C26_ModelOnlyWhenEnabled ==
    pipe.pc = "done" =>
       /\ pipe.model_called => (use_model /\ settings.enable_model)
       /\ ~(use_model /\ settings.enable_model) =>
             /\ pipe.df_similar = MetricOnly.rows
             /\ pipe.group_info = MetricOnly.group_info

\* a finished pipeline asked for the model with the setting off, on rows the
\* metric groups, with a provider that would have scored them apart
C26_Witness ==
    /\ pipe.pc = "done"
    /\ use_model
    /\ ~settings.enable_model
    /\ model_ready
    /\ pipe.wo = [ok |-> TRUE, score |-> <<2, 10>>]
    /\ pipe.group_info # <<>>
    /\ ~pipe.model_called

(***************************************************************************)
(* What the result of the grouping engine depends on                       *)
(***************************************************************************)
\* the rows and the group map the engine returns for the arguments of the
\* call when the saved settings are s and the provider answers wo
ResultUnder(s, wo) ==
    dws_return(sbd_run(NotStarted, [Args EXCEPT !.settings = s], wo))

\* C22: with the dataset, the column configuration, the thresholds, the keep
\* policy and the model flag of the call, and a provider that gives the same
\* answer, the engine returns the same rows and the same group map whatever
\* the saved settings are.
C22_DeterminedByArguments ==
    loc.pc = "done" =>
       \A wo \in WrapperOutcomes :
          \A s \in HybridSettings :
             ResultUnder(s, wo) = ResultUnder(settings, wo)

(***************************************************************************)
(* Properties of the ModelService                                          *)
(***************************************************************************)
\* the wrappers active_models holds
ActiveWrappers == { svc.active_models[k].wrapper : k \in 1..Len(svc.active_models) }

C30_ActiveModels ==
    LET c == svc.callers[1]
    IN  (svc.threads = {1} /\ c.pc = "idle") =>
           /\ \A m \in SeqToSet(KnownModels) :
                 IsActive(svc, m) <=> svc.last[m] = "loaded"
           /\ ~IsActive(svc, "ghost")
           /\ \A w \in ActiveWrappers : is_ready(svc.wrappers[w])
           /\ (c.op = "get" /\ c.wrapper = NoWrapper) => svc.active_models = c.before
           /\ (c.op = "unload" /\ c.result.kind = "False") => svc.active_models = c.before
           /\ (c.op = "unload"
                 /\ ~\E k \in 1..Len(c.before) : c.before[k].model_id = c.model_id) =>
                 c.result.kind = "False"

\* C21: no model has two loaded wrappers at a time, and the wrapper a call
\* of calculate_similarity is using is loaded.
C21_LoadOnceInUse ==
    /\ \A m \in ModelIds :
          Cardinality({ w \in 1..Len(svc.wrappers) :
                          svc.wrappers[w].model_id = m /\ svc.wrappers[w].is_loaded }) <= 1
    /\ \A t \in svc.threads :
          svc.callers[t].pc = "using" => svc.wrappers[svc.callers[t].wrapper].is_loaded

(***************************************************************************)
(* Properties of the ModelDownloader                                       *)
(***************************************************************************)
\* C29: after cancel_download returned True for a model, the thread it
\* cancelled emits no download_complete and has not marked the model as
\* downloaded, and no two threads download the same model at a time.
C29_CancelStopsDownload ==
    /\ \A i, j \in 1..Len(dl.complete) :
          (i < j /\ dl.complete[i].message = "cancelled") =>
             dl.complete[j].thread # dl.complete[i].thread
    /\ dl.cancelled \cap dl.marked_by = {}
    /\ \A k1, k2 \in 1..Len(dl.threads) :
          (k1 # k2 /\ dl.threads[k1].model_id = dl.threads[k2].model_id) =>
             (dl.threads[k1].pc = "done" \/ dl.threads[k2].pc = "done")

====
